---- MODULE Spec2Model ----
(***************************************************************************)
(* A model of the HTmp template compiler (src/src/index.ts): the cursor    *)
(* driven tree rewriter (processTree / processNode / processConditional),  *)
(* component expansion and attribute merging.                              *)
(*                                                                         *)
(* Strings that the code inspects character-wise are modelled by their     *)
(* structure: an attribute name is the tuple of its colon separated,       *)
(* non-empty segments ("eval:x" is <<"eval","x">>), and the data of a text *)
(* node is the sequence of its pieces, a piece being literal text or one   *)
(* match of the content pattern with its captured code.                    *)
(***************************************************************************)
EXTENDS Integers, Sequences, FiniteSets, TLC

\* ------------------------------------------------------------------------
\* Options (src/src/lib/options.ts, getDefaultOptions)
\* ------------------------------------------------------------------------
componentTagPrefix == "x-"
componentTag == "component"
yieldTag == "yield"
attrAttribute == "attr"
defineSlotTag == "slot"
fillSlotTag == "fill"
evaluateAttributePrefix == "eval"
dynamicTag == "dynamic"
stackTag == "stack"
pushTag == "push"

\* ------------------------------------------------------------------------
\* JavaScript values, as far as the compiler looks at them
\* ------------------------------------------------------------------------
JSVal(t, s, items) == [t |-> t, s |-> s, items |-> items]
JSTrue == JSVal("bool", "true", <<>>)
JSFalse == JSVal("bool", "false", <<>>)
JSNull == JSVal("null", "null", <<>>)
JSUndefined == JSVal("undef", "undefined", <<>>)
JSNum(s) == JSVal("num", s, <<>>)
JSStr(s) == JSVal("str", s, <<>>)
JSArr(id, items) == JSVal("arr", id, items)
JSThrow == JSVal("throw", "", <<>>)

\* evaluatedResult === false || evaluatedResult == null
IsFalseOrNullish(v) == v = JSFalse \/ v.t \in {"null", "undef"}

\* !!value
Truthy(v) ==
    CASE v.t = "bool" -> v = JSTrue
      [] v.t \in {"null", "undef"} -> FALSE
      [] v.t = "num" -> v.s # "0"
      [] v.t = "str" -> v.s # ""
      [] OTHER -> TRUE

\* a === b; an array is identical only to itself (s holds its identity, ""
\* for the result of an array literal, which is a fresh object each time)
StrictEquals(a, b) ==
    /\ a.t = b.t
    /\ a.s = b.s
    /\ a.t = "arr" => a.s # ""

RECURSIVE JoinComma(_)
JoinComma(items) ==
    IF items = <<>> THEN ""
    ELSE IF Len(items) = 1 THEN items[1].s
    ELSE items[1].s \o "," \o JoinComma(Tail(items))

\* `${value}`
TemplateString(v) == IF v.t = "arr" THEN JoinComma(v.items) ELSE v.s

\* ------------------------------------------------------------------------
\* The expression evaluator, runInNewContext(code, scope): literals, reads
\* of a variable of the scope chain, and the assignment of a literal to a
\* variable of the scope object itself. A scope is the function from the
\* names visible through its prototype chain to their values; a child made
\* by Object.create sees the same names and keeps its writes to itself.
\* ------------------------------------------------------------------------
Literals ==
    [src \in {"true", "false", "null", "undefined", "0", "1", "2", "''",
              "'a'", "'b'", "'p'", "'if'", "'a b'", "'card'", "[]", "[1]",
              "[1,2]"} |->
        CASE src = "true" -> JSTrue
          [] src = "false" -> JSFalse
          [] src = "null" -> JSNull
          [] src = "undefined" -> JSUndefined
          [] src = "0" -> JSNum("0")
          [] src = "1" -> JSNum("1")
          [] src = "2" -> JSNum("2")
          [] src = "''" -> JSStr("")
          [] src = "'a'" -> JSStr("a")
          [] src = "'b'" -> JSStr("b")
          [] src = "'p'" -> JSStr("p")
          [] src = "'if'" -> JSStr("if")
          [] src = "'a b'" -> JSStr("a b")
          [] src = "'card'" -> JSStr("card")
          [] src = "[]" -> JSArr("", <<>>)
          [] src = "[1]" -> JSArr("", <<JSNum("1")>>)
          [] src = "[1,2]" -> JSArr("", <<JSNum("1"), JSNum("2")>>)]

\* sources of the form  name = literal
Assignments ==
    [src \in {"y = 1"} |-> [name |-> "y", value |-> JSNum("1")]]

Bind(scope, name, value) ==
    [n \in DOMAIN scope \cup {name} |-> IF n = name THEN value ELSE scope[n]]

\* the value of the expression, JSThrow when the evaluator throws
runInNewContext(code, scope) ==
    IF code \in DOMAIN Literals THEN Literals[code]
    ELSE IF code \in DOMAIN Assignments THEN Assignments[code].value
    ELSE IF code \in DOMAIN scope THEN scope[code]
    ELSE JSThrow

\* the scope object after the evaluation
ScopeAfter(code, scope) ==
    IF code \in DOMAIN Assignments
    THEN Bind(scope, Assignments[code].name, Assignments[code].value)
    ELSE scope

\* ------------------------------------------------------------------------
\* Nodes (domhandler Text / Element) and attribute maps. attribs is the
\* ordered map of a JavaScript object: a sequence of entries, a new key is
\* appended, an existing key keeps its place.
\* ------------------------------------------------------------------------
Text(data) ==
    [type |-> "text", name |-> "", attribs |-> <<>>, children |-> <<>>,
     data |-> data]
Element(name, attribs, children) ==
    [type |-> "tag", name |-> name, attribs |-> attribs,
     children |-> children, data |-> <<>>]
isText(n) == n.type = "text"
isTag(n) == n.type = "tag"

Lit(s) == [k |-> "lit", s |-> s]
Code(s) == [k |-> "code", s |-> s]
Attr(k, v) == [k |-> k, v |-> v]

HasAttr(attribs, k) == \E i \in 1..Len(attribs) : attribs[i].k = k
GetAttr(attribs, k) ==
    attribs[CHOOSE i \in 1..Len(attribs) : attribs[i].k = k].v
DeleteAttr(attribs, k) == SelectSeq(attribs, LAMBDA e : e.k # k)
SetAttr(attribs, k, v) ==
    IF HasAttr(attribs, k)
    THEN [i \in 1..Len(attribs) |->
            IF attribs[i].k = k THEN Attr(k, v) ELSE attribs[i]]
    ELSE Append(attribs, Attr(k, v))

\* the elements and text nodes the templates of the model are written with
A(k, v) == Attr(<<k>>, v)
T(s) == Text(<<Lit(s)>>)
X(code) == Text(<<Code(code)>>)
P(children) == Element("p", <<>>, children)
B == Element("b", <<>>, <<>>)
I == Element("i", <<>>, <<>>)
If(c, children) == Element("if", <<A("condition", c)>>, children)
Elseif(c, children) == Element("elseif", <<A("condition", c)>>, children)
Else(children) == Element("else", <<>>, children)
For(in, children) == Element("for", <<A("item", "x"), A("in", in)>>, children)
Dynamic(tag, children) ==
    Element(dynamicTag, <<A("tag", tag), A("id", "d")>>, children)
Case(c, children) == Element("case", <<A("case", c)>>, children)
Default(children) == Element("case", <<A("default", "")>>, children)
Switch(value, cases) == Element("switch", <<A("value", value)>>, cases)
Card(attribs, children) == Element("x-card", attribs, children)
Fill(slot, children) == Element(fillSlotTag, <<A("slot", slot)>>, children)
Yield(children) == Element(yieldTag, <<>>, children)
Slot(name, children) == Element(defineSlotTag, <<A("name", name)>>, children)
El(name, children) == Element(name, <<>>, children)
Pid(id, s) == Element("p", <<A("id", id)>>, <<T(s)>>)
Push(stack, children) == Element(pushTag, <<A("stack", stack)>>, children)
Stack(name, children) == Element(stackTag, <<A("name", name)>>, children)

\* colonMatch(numSegments, str): the first numSegments-1 segments and the
\* rest of the name
colonMatch(numSegments, str) ==
    IF Len(str) >= numSegments
    THEN [isMatch |-> TRUE,
          segments |-> [i \in 1..numSegments |->
                          IF i < numSegments THEN str[i]
                          ELSE SubSeq(str, numSegments, Len(str))]]
    ELSE [isMatch |-> FALSE, segments |-> <<>>]

\* ------------------------------------------------------------------------
\* What a run of the rewriter does besides rewriting: the expressions it
\* evaluates, the merge calls it makes, the files it reads and the component
\* cache it fills. w is that record, threaded through every call together
\* with the (fixed) configuration of the compiler instance.
\* ------------------------------------------------------------------------
Logged(w, code) == [w EXCEPT !.evals = Append(@, code)]

\* what processNode / processTree hand back: the sibling list after the
\* call, the number processNode returns, and how the call ended ("ok", a
\* thrown "error" with its message, or "hang": the loop of processTree
\* repeats a dispatch that changes nothing and moves no cursor)
Result(tree, ret, w) == [tree |-> tree, ret |-> ret, st |-> "ok", msg |-> "", w |-> w]
Thrown(tree, msg, w) == [tree |-> tree, ret |-> 0, st |-> "error", msg |-> msg, w |-> w]
Hang(tree, w) == [tree |-> tree, ret |-> 0, st |-> "hang", msg |-> "", w |-> w]

\* the pieces of a string that is written into text data: the string
\* "%%1%%" is one match of the content pattern /%%(.+?)%%/g
Pieces(s) ==
    IF s = "" THEN <<>>
    ELSE IF s = "%%1%%" THEN <<Code("1")>>
    ELSE <<Lit(s)>>

\* one evaluation: its value, the scope object after it, and the log
evaluate(code, scope, w) ==
    [value |-> runInNewContext(code, scope),
     scope |-> ScopeAfter(code, scope), w |-> Logged(w, code)]

\* node.data.replaceAll(evaluateContentPattern, ...): every match of the
\* data is evaluated in turn, in one scope object
RECURSIVE replaceAll(_, _, _, _, _)
RECURSIVE replaceMatch(_, _, _, _)

\* the callback (_, code) => {...} for the match data[i], evaluated as e
replaceMatch(data, i, done, e) ==
    IF e.value = JSThrow THEN [data |-> data, st |-> "error", w |-> e.w]
    ELSE replaceAll(data, i + 1,
             IF IsFalseOrNullish(e.value) THEN done
             ELSE done \o Pieces(TemplateString(e.value)),
             e.scope, e.w)

replaceAll(data, i, done, scope, w) ==
    IF i > Len(data) THEN [data |-> done, st |-> "ok", w |-> w]
    ELSE IF data[i].k = "lit"
    THEN replaceAll(data, i + 1, Append(done, data[i]), scope, w)
    ELSE replaceMatch(data, i, done, evaluate(data[i].s, scope, w))

\* the "evaluate attributes" loop of processNode over the entries the
\* element has when the loop starts
RECURSIVE evaluateAttributes(_, _, _, _, _)
RECURSIVE evaluateAttribute(_, _, _, _, _, _)

\* the body of the loop for a matching entry k = eval:<name>, from
\* "delete node.attribs[k]" on; e is the evaluation of its value
evaluateAttribute(entries, i, attribs, scope, name, e) ==
    IF e.value = JSThrow
    THEN [attribs |-> DeleteAttr(attribs, entries[i].k), scope |-> scope,
          st |-> "error", w |-> e.w]
    ELSE evaluateAttributes(entries, i + 1,
            IF IsFalseOrNullish(e.value)
            THEN DeleteAttr(attribs, entries[i].k)
            ELSE SetAttr(DeleteAttr(attribs, entries[i].k), name,
                         IF e.value = JSTrue THEN ""
                         ELSE TemplateString(e.value)),
            e.scope, e.w)

evaluateAttributes(entries, i, attribs, scope, w) ==
    IF i > Len(entries)
    THEN [attribs |-> attribs, scope |-> scope, st |-> "ok", w |-> w]
    ELSE IF \/ ~colonMatch(2, entries[i].k).isMatch
            \/ colonMatch(2, entries[i].k).segments[1] # evaluateAttributePrefix
    THEN evaluateAttributes(entries, i + 1, attribs, scope, w)
    ELSE evaluateAttribute(entries, i, attribs, scope,
                           colonMatch(2, entries[i].k).segments[2],
                           evaluate(entries[i].v, scope, w))

\* ------------------------------------------------------------------------
\* Sibling lists. A list processTree works on is either owned by a parent
\* (the root list of a parsed document, the children of an element): then
\* domutils' removeElement and prepend splice the list and the prev/next
\* links follow it. Or it is the array of parentless clones a loop makes
\* (owned = FALSE): then removeElement(node) and prepend(node, x) find no
\* parent, leave the array alone, and nextElementSibling(node) is null.
\* ------------------------------------------------------------------------
ReplaceAt(tree, i, node) == [tree EXCEPT ![i] = node]
Splice(tree, i, nodes) ==
    SubSeq(tree, 1, i - 1) \o nodes \o SubSeq(tree, i + 1, Len(tree))

\* index of the next sibling that is an element, 0 if there is none
nextElementSibling(tree, i) ==
    IF \E j \in (i + 1)..Len(tree) : isTag(tree[j])
    THEN CHOOSE j \in (i + 1)..Len(tree) :
            isTag(tree[j]) /\ \A k \in (i + 1)..(j - 1) : ~isTag(tree[k])
    ELSE 0

\* "find & remove subsequent elseifs and elses"
RECURSIVE removeSubsequent(_, _)
removeSubsequent(tree, i) ==
    LET j == nextElementSibling(tree, i)
    IN IF j # 0 /\ tree[j].name \in {"elseif", "else"}
       THEN removeSubsequent(Splice(tree, j, <<>>), i)
       ELSE tree

\* while (from.firstChild) prepend(node, from.firstChild); removeElement(node)
\* where the children of `from` (node itself, or the winning case) have
\* become `content` and `emptied` is node once they are moved out
unwrap(tree, i, owned, content, emptied) ==
    IF owned THEN Splice(tree, i, content) ELSE ReplaceAt(tree, i, emptied)

\* /^\S+$/.test(s)
NonBlank(s) == s \notin {"", "a b"}

\* /[a-zA-Z_$][a-zA-Z0-9_$]*/.test(s)
HasIdentifier(s) == s \notin {"", "1", "-"}

\* ------------------------------------------------------------------------
\* The rewriter
\* ------------------------------------------------------------------------
RECURSIVE processTree(_, _, _, _, _)
RECURSIVE advance(_, _, _, _, _, _)
RECURSIVE processNode(_, _, _, _, _)
RECURSIVE processElement(_, _, _, _)
RECURSIVE processConditional(_, _, _, _, _)
RECURSIVE conditionalEvaluated(_, _, _, _)
RECURSIVE processDynamic(_, _, _, _, _)
RECURSIVE dynamicEvaluated(_, _, _, _)
RECURSIVE processSwitch(_, _, _, _, _)
RECURSIVE switchEvaluated(_, _, _, _)
RECURSIVE switchFound(_, _, _, _)
RECURSIVE processFor(_, _, _, _, _)
RECURSIVE forEvaluated(_, _, _, _)
RECURSIVE loopItems(_, _, _, _, _, _)
RECURSIVE processComponent(_, _, _, _, _)
RECURSIVE expandComponent(_, _, _, _, _, _)

\* a call that failed below hands its failure up; the list is of no use then
Failed(tree, r) == [r EXCEPT !.tree = tree, !.ret = 0]

\* "cursor += await this.processNode(tree[cursor], scope)" and the next turn
\* of the loop, r being what the call handed back. A call that returns 0 and
\* leaves the list and the cache as they were is repeated forever.
advance(tree, cursor, owned, scope, w, r) ==
    IF r.st # "ok" THEN r
    ELSE IF r.ret = 0 /\ r.tree = tree /\ r.w.cache = w.cache
    THEN Hang(tree, r.w)
    ELSE processTree(r.tree, cursor + r.ret, owned, scope, r.w)

\* processTree(tree, scope), from the cursor position `cursor` (1-based)
processTree(tree, cursor, owned, scope, w) ==
    IF cursor > Len(tree) THEN Result(tree, 0, w)
    ELSE advance(tree, cursor, owned, scope, w,
                 processNode(tree, cursor, owned, scope, w))

\* processConditional, "truthy case" from "find & remove subsequent elseifs
\* and elses" on: c is what processTree(el.children, scope) handed back
conditionalInsert(tree, i, owned, c) ==
    IF c.st # "ok" THEN Failed(tree, c)
    ELSE Result(unwrap(IF owned THEN removeSubsequent(tree, i) ELSE tree,
                       i, owned, c.tree, [tree[i] EXCEPT !.children = <<>>]),
                Len(c.tree), c.w)

\* processConditional once doesMatch is known: e.value is the value of the
\* condition (true for an else)
conditionalEvaluated(tree, i, owned, e) ==
    IF e.value = JSThrow THEN Thrown(tree, "evaluation", e.w)
    ELSE IF Truthy(e.value)
    THEN conditionalInsert(tree, i, owned,
            processTree(tree[i].children, 1, TRUE, e.scope, e.w))
    ELSE LET next == IF owned THEN nextElementSibling(tree, i) ELSE 0
             removed == IF owned THEN Splice(tree, i, <<>>) ELSE tree
         IN IF next # 0 /\ tree[next].name \in {"elseif", "else"}
            THEN processConditional(removed, next - 1, owned, e.scope, e.w)
            ELSE Result(removed, 0, e.w)

\* processConditional(el, scope), el being tree[i]
processConditional(tree, i, owned, scope, w) ==
    IF /\ tree[i].name \in {"if", "elseif"}
       /\ ~HasAttr(tree[i].attribs, <<"condition">>)
    THEN Thrown(tree, "Conditional tag must have a condition attribute", w)
    ELSE IF tree[i].name \notin {"if", "elseif", "else"}
    THEN Thrown(tree, "evaludateConditional called on invalid tag", w)
    ELSE conditionalEvaluated(tree, i, owned,
            IF tree[i].name = "else"
            THEN [value |-> JSTrue, scope |-> scope, w |-> w]
            ELSE evaluate(GetAttr(tree[i].attribs, <<"condition">>),
                          scope, w))

\* processNode, "dynamic tags", from "false or nullish results means remove
\* the wrapper" on: c is what processTree(node.children, scope) handed back
dynamicReplace(tree, i, owned, evaluatedResult, c) ==
    IF c.st # "ok" THEN Failed(tree, c)
    ELSE IF IsFalseOrNullish(evaluatedResult)
    THEN Result(unwrap(tree, i, owned, c.tree,
                       [tree[i] EXCEPT !.children = <<>>]),
                Len(c.tree), c.w)
    ELSE IF evaluatedResult.t = "str" /\ NonBlank(evaluatedResult.s)
    THEN Result(ReplaceAt(tree, i,
                   [tree[i] EXCEPT !.name = evaluatedResult.s,
                                   !.attribs = DeleteAttr(@, <<"tag">>),
                                   !.children = c.tree]),
                1, c.w)
    ELSE Thrown(tree, "Dynamic tag tag attribute must evaluate to a string (with no spaces), nullish, or false.", c.w)

\* processNode, "dynamic tags", "recurse into content"
dynamicEvaluated(tree, i, owned, e) ==
    IF e.value = JSThrow THEN Thrown(tree, "evaluation", e.w)
    ELSE dynamicReplace(tree, i, owned, e.value,
            processTree(tree[i].children, 1, TRUE, e.scope, e.w))

\* processNode, "dynamic tags"
processDynamic(tree, i, owned, scope, w) ==
    IF ~HasAttr(tree[i].attribs, <<"tag">>)
    THEN Thrown(tree, "Dynamic tag must have a tag attribute", w)
    ELSE dynamicEvaluated(tree, i, owned,
            evaluate(GetAttr(tree[i].attribs, <<"tag">>), scope, w))

\* caseChildren.find(caseEl => "case" in attribs && !("default" in attribs)
\*   && runInNewContext(caseEl.attribs.case, scope) === evaluatedResult)
\* over the children from index k: the index found (0: none), with the
\* evaluations made on the way
RECURSIVE findWinningCase(_, _, _, _, _)
RECURSIVE caseEvaluated(_, _, _, _)

\* the comparison for the case children[k], its value evaluated as e
caseEvaluated(children, k, evaluatedResult, e) ==
    IF e.value = JSThrow
    THEN [found |-> 0, st |-> "error", scope |-> e.scope, w |-> e.w]
    ELSE IF StrictEquals(e.value, evaluatedResult)
    THEN [found |-> k, st |-> "ok", scope |-> e.scope, w |-> e.w]
    ELSE findWinningCase(children, k + 1, evaluatedResult, e.scope, e.w)

findWinningCase(children, k, evaluatedResult, scope, w) ==
    IF k > Len(children)
    THEN [found |-> 0, st |-> "ok", scope |-> scope, w |-> w]
    ELSE IF ~(/\ isTag(children[k]) /\ children[k].name = "case"
              /\ HasAttr(children[k].attribs, <<"case">>)
              /\ ~HasAttr(children[k].attribs, <<"default">>))
    THEN findWinningCase(children, k + 1, evaluatedResult, scope, w)
    ELSE caseEvaluated(children, k, evaluatedResult,
            evaluate(GetAttr(children[k].attribs, <<"case">>), scope, w))

\* caseChildren.find(caseEl => "default" in attribs && !("case" in attribs))
defaultCase(children) ==
    LET isDefault(k) == /\ isTag(children[k]) /\ children[k].name = "case"
                        /\ HasAttr(children[k].attribs, <<"default">>)
                        /\ ~HasAttr(children[k].attribs, <<"case">>)
    IN IF \E k \in 1..Len(children) : isDefault(k)
       THEN CHOOSE k \in 1..Len(children) :
               isDefault(k) /\ \A j \in 1..(k - 1) : ~isDefault(j)
       ELSE 0

\* processNode, "switch/case tags", the end: c is what
\* processTree(winningCase.children, scope) handed back
switchInsert(tree, i, owned, winningCase, c) ==
    IF c.st # "ok" THEN Failed(tree, c)
    ELSE Result(unwrap(tree, i, owned, c.tree,
                       [tree[i] EXCEPT
                          !.children[winningCase].children = <<>>]),
                Len(c.tree), c.w)

\* processNode, "switch/case tags", from "if (!winningCase)" on; f is the
\* search for a matching case, winningCase the index of the case (0: none)
switchFound(tree, i, owned, f) ==
    LET winningCase == IF f.found # 0 THEN f.found
                       ELSE defaultCase(tree[i].children)
    IN IF f.st # "ok" THEN Thrown(tree, "evaluation", f.w)
       ELSE IF winningCase = 0
       THEN Result(IF owned THEN Splice(tree, i, <<>>) ELSE tree, 0, f.w)
       ELSE switchInsert(tree, i, owned, winningCase,
               processTree(tree[i].children[winningCase].children, 1, TRUE,
                           f.scope, f.w))

\* processNode, "switch/case tags", the choice of the case
switchEvaluated(tree, i, owned, e) ==
    IF e.value = JSThrow THEN Thrown(tree, "evaluation", e.w)
    ELSE switchFound(tree, i, owned,
            findWinningCase(tree[i].children, 1, e.value, e.scope, e.w))

\* processNode, "switch/case tags"
processSwitch(tree, i, owned, scope, w) ==
    IF ~HasAttr(tree[i].attribs, <<"value">>)
    THEN Thrown(tree, "Switch tag must have a value attribute", w)
    ELSE switchEvaluated(tree, i, owned,
            evaluate(GetAttr(tree[i].attribs, <<"value">>), scope, w))

\* the end of one iteration of "for (const item of evaluatedArray)": c is
\* what processTree(innerTree, scope) handed back
loopItem(node, items, k, made, scope, c) ==
    IF c.st # "ok"
    THEN [made |-> made, st |-> c.st, msg |-> c.msg, w |-> c.w]
    ELSE loopItems(node, items, k + 1, made \o c.tree, scope, c.w)

\* the body of "for (const item of evaluatedArray)" from item k on: the
\* nodes the iterations made so far are in `made`
loopItems(node, items, k, made, scope, w) ==
    IF k > Len(items) THEN [made |-> made, st |-> "ok", msg |-> "", w |-> w]
    ELSE loopItem(node, items, k, made,
            Bind(scope, GetAttr(node.attribs, <<"item">>), items[k]),
            processTree(node.children, 1, FALSE,
                Bind(scope, GetAttr(node.attribs, <<"item">>), items[k]), w))

\* processNode, "loop tags", the end: removeElement(node), l being the loop
forInsert(tree, i, owned, l) ==
    IF l.st # "ok"
    THEN [tree |-> tree, ret |-> 0, st |-> l.st, msg |-> l.msg, w |-> l.w]
    ELSE Result(IF owned THEN Splice(tree, i, l.made) ELSE tree,
                Len(l.made), l.w)

\* processNode, "loop tags", from Array.isArray(evaluatedArray) on
forEvaluated(tree, i, owned, e) ==
    IF e.value = JSThrow THEN Thrown(tree, "evaluation", e.w)
    ELSE IF e.value.t # "arr"
    THEN Thrown(tree, "For tag in attribute must evaluate to an array", e.w)
    ELSE forInsert(tree, i, owned,
            loopItems(tree[i], e.value.items, 1, <<>>,
                      Bind(e.scope, "__array", e.value), e.w))

\* processNode, "loop tags"
processFor(tree, i, owned, scope, w) ==
    IF ~(/\ HasAttr(tree[i].attribs, <<"item">>)
         /\ HasAttr(tree[i].attribs, <<"in">>))
    THEN Thrown(tree, "For tag must have item and in attributes", w)
    ELSE IF ~HasIdentifier(GetAttr(tree[i].attribs, <<"item">>))
    THEN Thrown(tree, "For tag item attribute must be a valid identifier", w)
    ELSE forEvaluated(tree, i, owned,
            evaluate(GetAttr(tree[i].attribs, <<"in">>), scope, w))

\* tagName.startsWith(componentTagPrefix), and the name sliced off it
PrefixedNames ==
    [tag \in {"x-card", "x-row", "x-ui.card"} |->
        CASE tag = "x-card" -> "card"
          [] tag = "x-row" -> "row"
          [] tag = "x-ui.card" -> "ui.card"]
isComponentByPrefix(node) == node.name \in DOMAIN PrefixedNames
isComponentByTag(node) == node.name = componentTag


\* ---- component sources ----
\* componentName.replaceAll(".", path.sep)
dotsToSeparators(componentName) ==
    CASE componentName = "ui.card" -> "ui/card"
      [] OTHER -> componentName

\* path.join(componentsRoot, `${name.replaceAll(".", path.sep)}.html`) and
\* path.join(componentsRoot, `${name.replaceAll(".", path.sep)}/index.html`),
\* relative to componentsRoot
directFilePath(componentName) == dotsToSeparators(componentName) \o ".html"
indexFilePath(componentName) ==
    dotsToSeparators(componentName) \o "/index.html"

\* fs.readFile(path, "utf8"): the content, or the code of the error; a file
\* that exists and cannot be read is in fs with the content "EACCES"
readFile(fs, path) == IF path \in DOMAIN fs THEN fs[path] ELSE "ENOENT"
isENOENT_anyError(err) == TRUE
isENOENT(err) == err = "ENOENT"
IsError(read) == read \in {"ENOENT", "EACCES"}

\* this.componentCache.set(componentName, content)
CacheSet(cache, componentName, content) ==
    [n \in DOMAIN cache \cup {componentName} |->
        IF n = componentName THEN content ELSE cache[n]]

\* the outcome of one resolution, with what it found in the cache and what
\* it read on the way, and the world after it
Loaded(w, componentName, st, msg, from, content, reads) ==
    LET after == IF st = "ok" /\ from \in {"direct", "index"}
                    /\ w.cacheComponents
                 THEN CacheSet(w.cache, componentName, content)
                 ELSE w.cache
    IN [st |-> st, msg |-> msg, from |-> from, content |-> content,
        w |-> [w EXCEPT
                 !.reads = @ \o reads,
                 !.cache = after,
                 !.loads = Append(@, [name |-> componentName, st |-> st,
                                      msg |-> msg, from |-> from,
                                      content |-> content, cache |-> w.cache,
                                      after |-> after, reads |-> reads])]]

\* "or load from file": direct and index are what the two reads give
loadFromFile(componentName, w, direct, index) ==
    IF ~IsError(direct)
    THEN Loaded(w, componentName, "ok", "", "direct", direct,
                <<directFilePath(componentName)>>)
    ELSE IF ~isENOENT(direct)
    THEN Loaded(w, componentName, "error", direct, "", "",
                <<directFilePath(componentName)>>)
    ELSE IF ~IsError(index)
    THEN Loaded(w, componentName, "ok", "", "index", index,
                <<directFilePath(componentName),
                  indexFilePath(componentName)>>)
    ELSE IF ~isENOENT(index)
    THEN Loaded(w, componentName, "error", index, "", "",
                <<directFilePath(componentName),
                  indexFilePath(componentName)>>)
    ELSE Loaded(w, componentName, "error",
                "Component not found: " \o componentName, "", "",
                <<directFilePath(componentName),
                  indexFilePath(componentName)>>)

\* the resolution without the branch "either pull from cache"
loadComponent_ignoreCache(componentName, w) ==
    IF componentName \in DOMAIN w.passedComponents
    THEN Loaded(w, componentName, "ok", "", "passed",
                w.passedComponents[componentName], <<>>)
    ELSE loadFromFile(componentName, w,
            readFile(w.fs, directFilePath(componentName)),
            readFile(w.fs, indexFilePath(componentName)))

\* processNode, "first see if the component was passed in the constructor /
\* either pull from cache / or load from file"
\* (componentName in this.passedComponents is taken over the own keys of the
\* object: the names of the model are none of Object.prototype's members)
loadComponent(componentName, w) ==
    IF componentName \in DOMAIN w.passedComponents
    THEN Loaded(w, componentName, "ok", "", "passed",
                w.passedComponents[componentName], <<>>)
    ELSE IF w.cacheComponents /\ componentName \in DOMAIN w.cache
    THEN Loaded(w, componentName, "ok", "", "cache",
                w.cache[componentName], <<>>)
    ELSE loadFromFile(componentName, w,
            readFile(w.fs, directFilePath(componentName)),
            readFile(w.fs, indexFilePath(componentName)))

\* ---- elements of a tree, by path ----
NodeAt(tree, path) ==
    LET RECURSIVE at(_, _)
        at(t, p) == IF Len(p) = 1 THEN t[p[1]] ELSE at(t[p[1]].children, Tail(p))
    IN at(tree, path)

\* the tree with the node at path replaced by the list `nodes`
RECURSIVE SpliceAt(_, _, _)
SpliceAt(tree, path, nodes) ==
    IF Len(path) = 1 THEN Splice(tree, path[1], nodes)
    ELSE ReplaceAt(tree, path[1],
            [tree[path[1]] EXCEPT
                !.children = SpliceAt(@, Tail(path), nodes)])

Matches(node, test) ==
    /\ isTag(node)
    /\ IF test = "[attr]" THEN HasAttr(node.attribs, <<attrAttribute>>)
       ELSE node.name = test

\* findElements(tree, test) (findNodes): the matches of this list first, then
\* those below each of its nodes in turn; an element is given by its path
RECURSIVE findElements(_, _, _)
RECURSIVE findBelow(_, _, _, _)
findBelow(tree, k, prefix, test) ==
    IF k > Len(tree) THEN <<>>
    ELSE findElements(tree[k].children, Append(prefix, k), test)
         \o findBelow(tree, k + 1, prefix, test)
findElements(tree, prefix, test) ==
    LET RECURSIVE filter(_)
        filter(k) ==
            IF k > Len(tree) THEN <<>>
            ELSE (IF Matches(tree[k], test) THEN <<Append(prefix, k)>>
                  ELSE <<>>) \o filter(k + 1)
    IN filter(1) \o findBelow(tree, 1, prefix, test)

\* where the element at path q is once the element at path p was replaced
\* by m nodes; <<>> when q was below p and left the tree with it
Shifted(q, p, m) ==
    IF Len(p) <= Len(q) /\ SubSeq(q, 1, Len(p)) = p THEN <<>>
    ELSE IF /\ Len(q) >= Len(p)
            /\ SubSeq(q, 1, Len(p) - 1) = SubSeq(p, 1, Len(p) - 1)
            /\ q[Len(p)] > p[Len(p)]
    THEN [q EXCEPT ![Len(p)] = @ + m - 1]
    ELSE q

\* ---- attribute merging ----
\* the built-in strategies of getDefaultOptions and those a user may pass;
\* a strategy is named by what its merge function does
EndsWithSemicolon(s) == s \in {"c:r;", "c:b;"}
mergeFn(fn, a, hasA, b) ==
    CASE fn = "class" ->
            [t |-> "string",
             s |-> IF ~hasA \/ a = "" THEN b
                   ELSE IF b = "" THEN a ELSE a \o " " \o b]
      [] fn = "style" ->
            LET newA == IF ~hasA THEN ";"
                        ELSE IF EndsWithSemicolon(a) THEN a ELSE a \o ";"
                newB == IF EndsWithSemicolon(b) THEN b ELSE b \o ";"
            IN [t |-> "string", s |-> newA \o " " \o newB]
      [] fn = "overwrite" -> [t |-> "string", s |-> b]
      [] fn = "keep" -> IF hasA THEN [t |-> "string", s |-> a]
                        ELSE [t |-> "undefined", s |-> ""]
      [] fn = "true" -> [t |-> "boolean", s |-> "true"]
      [] fn = "null" -> [t |-> "null", s |-> ""]

\* s.pattern.test(k) for the patterns of the model, /^data-/ and /^cl/
PatternTest(pattern, k) ==
    \/ pattern = "^data-" /\ k \in {<<"data-a">>, <<"data-b">>}
    \/ pattern = "^cl" /\ k = <<"class">>

\* the choice of the first strategy of the list that matches the key, by
\* name or by pattern
strategyFor_listOrder(strategies, k) ==
    LET matches(j) == \/ strategies[j].by = "name" /\ strategies[j].key = k
                      \/ strategies[j].by = "pattern"
                         /\ PatternTest(strategies[j].key, k)
    IN IF \E j \in 1..Len(strategies) : matches(j)
       THEN strategies[CHOOSE j \in 1..Len(strategies) :
                          matches(j) /\ \A h \in 1..(j - 1) : ~matches(h)].merge
       ELSE "overwrite"

\* assignAttributesToElement, the choice of mergeFn for the key k
strategyFor(strategies, k) ==
    LET byName(j) == strategies[j].by = "name" /\ strategies[j].key = k
        byPattern(j) == strategies[j].by = "pattern"
                        /\ PatternTest(strategies[j].key, k)
        first(Test(_)) == CHOOSE j \in 1..Len(strategies) :
                             Test(j) /\ \A h \in 1..(j - 1) : ~Test(h)
    IN IF \E j \in 1..Len(strategies) : byName(j)
       THEN strategies[first(byName)].merge
       ELSE IF \E j \in 1..Len(strategies) : byPattern(j)
       THEN strategies[first(byPattern)].merge
       ELSE "overwrite"

\* assignAttributesToElement(target, sourceAttributes) from entry j on; each
\* call of a merge function is recorded
RECURSIVE assignAttributesToElement(_, _, _, _, _)
assignAttributesToElement(target, sourceAttributes, j, where, w) ==
    IF j > Len(sourceAttributes) THEN [el |-> target, w |-> w]
    ELSE
    LET k == sourceAttributes[j].k
        v == sourceAttributes[j].v
        hasA == HasAttr(target.attribs, k)
        a == IF hasA THEN GetAttr(target.attribs, k) ELSE ""
        mergeResult == mergeFn(strategyFor(w.strategies, k), a, hasA, v)
        attribs == IF mergeResult.t = "string"
                   THEN SetAttr(target.attribs, k, mergeResult.s)
                   ELSE IF mergeResult.t = "boolean" /\ mergeResult.s = "true"
                   THEN SetAttr(target.attribs, k, "")
                   ELSE DeleteAttr(target.attribs, k)
        call == [target |-> where, k |-> k, hasA |-> hasA, a |-> a, v |-> v,
                 mergeResult |-> mergeResult]
    IN assignAttributesToElement([target EXCEPT !.attribs = attribs],
           sourceAttributes, j + 1, where,
           [w EXCEPT !.merges = Append(@, call)])


\* ---- server scripts and props ----
RECURSIVE innerText(_)
innerText(node) ==
    LET RECURSIVE ofData(_)
        ofData(d) == IF d = <<>> THEN ""
                     ELSE (IF d[1].k = "lit" THEN d[1].s
                           ELSE "%%" \o d[1].s \o "%%") \o ofData(Tail(d))
        RECURSIVE ofList(_)
        ofList(l) == IF l = <<>> THEN "" ELSE innerText(l[1]) \o ofList(Tail(l))
    IN IF isText(node) THEN ofData(node.data) ELSE ofList(node.children)

\* the server scripts of the model: a script is a sequence of statements
\*   <var> = props.<name>      (eval = FALSE)
\*   <var> = props.$<name>     (eval = TRUE)
Scripts ==
    [src \in {"t = props.title", "t = props.$title", "t = props.title; u = props.title"} |->
        CASE src = "t = props.title" ->
                <<[var |-> "t", eval |-> FALSE, name |-> "title"]>>
          [] src = "t = props.$title" ->
                <<[var |-> "t", eval |-> TRUE, name |-> "title"]>>
          [] src = "t = props.title; u = props.title" ->
                <<[var |-> "t", eval |-> FALSE, name |-> "title"],
                  [var |-> "u", eval |-> FALSE, name |-> "title"]>>]

\* innerComponentScope.props = new Proxy(...), as a value
propsProxy == JSVal("obj", "[object Object]", <<>>)

\* "delete innerComponentScope.props": the name is read through the
\* prototype scope again
deleteProps(inner, scope) ==
    [n \in (DOMAIN inner \ {"props"}) \cup (DOMAIN scope \cap {"props"}) |->
        IF n = "props" THEN scope[n] ELSE inner[n]]

\* the get trap without "delete node.attribs[varName]"
propsGet_keepAttribute(stmt, p, scope, w) ==
    LET key == <<stmt.eval, stmt.name>>
        varName == <<stmt.name>>
    IN IF key \in DOMAIN p.target
       THEN [p EXCEPT !.inner = Bind(@, stmt.var, p.target[key])]
            @@ [st |-> "ok", w |-> w]
       ELSE IF HasAttr(p.attribs, varName)
       THEN LET raw == GetAttr(p.attribs, varName)
                value == IF stmt.eval THEN runInNewContext(raw, scope)
                         ELSE JSStr(raw)
                w1 == IF stmt.eval THEN Logged(w, raw) ELSE w
            IN IF value = JSThrow THEN p @@ [st |-> "error", w |-> w1]
               ELSE [target |-> [x \in DOMAIN p.target \cup {key} |->
                                   IF x = key THEN value ELSE p.target[x]],
                     attribs |-> p.attribs,
                     inner |-> Bind(p.inner, stmt.var, value),
                     st |-> "ok", w |-> w1]
       ELSE [p EXCEPT !.inner = Bind(@, stmt.var, JSUndefined)]
            @@ [st |-> "ok", w |-> w]

\* the get trap of the props proxy for one statement, then the assignment:
\* p is [target (the memo), attribs (of the caller), inner (the scope)]
propsGet(stmt, p, scope, w) ==
    LET key == <<stmt.eval, stmt.name>>
        varName == <<stmt.name>>
    IN IF key \in DOMAIN p.target
       THEN [p EXCEPT !.inner = Bind(@, stmt.var, p.target[key])]
            @@ [st |-> "ok", w |-> w]
       ELSE IF HasAttr(p.attribs, varName)
       THEN LET raw == GetAttr(p.attribs, varName)
                value == IF stmt.eval THEN runInNewContext(raw, scope)
                         ELSE JSStr(raw)
                w1 == IF stmt.eval THEN Logged(w, raw) ELSE w
            IN IF value = JSThrow THEN p @@ [st |-> "error", w |-> w1]
               ELSE [target |-> [x \in DOMAIN p.target \cup {key} |->
                                   IF x = key THEN value ELSE p.target[x]],
                     attribs |-> DeleteAttr(p.attribs, varName),
                     inner |-> Bind(p.inner, stmt.var, value),
                     st |-> "ok", w |-> w1]
       ELSE [p EXCEPT !.inner = Bind(@, stmt.var, JSUndefined)]
            @@ [st |-> "ok", w |-> w]

RECURSIVE runStatements(_, _, _, _, _)
runStatements(stmts, k, p, scope, w) ==
    IF k > Len(stmts) THEN p @@ [st |-> "ok", w |-> w]
    ELSE LET r == propsGet(stmts[k], p, scope, w)
         IN IF r.st # "ok" THEN r
            ELSE runStatements(stmts, k + 1,
                    [target |-> r.target, attribs |-> r.attribs,
                     inner |-> r.inner], scope, r.w)

isServerScript(n) ==
    isTag(n) /\ n.name = "script" /\ HasAttr(n.attribs, <<"server">>)

\* "for (const scriptEl of serverScripts)": runs the scripts of the list
\* from index k on
RECURSIVE runServerScripts(_, _, _, _, _)
runServerScripts(componentTree, k, p, scope, w) ==
    IF k > Len(componentTree) THEN p @@ [st |-> "ok", w |-> w]
    ELSE IF ~isServerScript(componentTree[k])
    THEN runServerScripts(componentTree, k + 1, p, scope, w)
    ELSE LET src == innerText(componentTree[k])
         IN IF src \in DOMAIN Scripts
            THEN LET r == runStatements(Scripts[src], 1, p, scope, w)
                 IN IF r.st # "ok" THEN r
                    ELSE runServerScripts(componentTree, k + 1,
                            [target |-> r.target, attribs |-> r.attribs,
                             inner |-> r.inner], scope, r.w)
            ELSE IF runInNewContext(src, p.inner) = JSThrow
            THEN p @@ [st |-> "error", w |-> Logged(w, src)]
            ELSE runServerScripts(componentTree, k + 1,
                    [p EXCEPT !.inner = ScopeAfter(src, @)], scope,
                    Logged(w, src))

\* ---- attribute map and pass-through ----
\* "organize attributes into a map": bucket name -> attributes
RECURSIVE organizeAttributes(_, _, _)
organizeAttributes(attribs, k, attrMap) ==
    IF k > Len(attribs) THEN attrMap
    ELSE LET m == colonMatch(3, attribs[k].k)
             toSlot == m.isMatch /\ m.segments[1] = attrAttribute
             slot == IF toSlot THEN m.segments[2] ELSE ""
             key == IF toSlot THEN m.segments[3] ELSE attribs[k].k
             had == IF slot \in DOMAIN attrMap THEN attrMap[slot] ELSE <<>>
         IN organizeAttributes(attribs, k + 1,
               [b \in DOMAIN attrMap \cup {slot} |->
                   IF b = slot THEN SetAttr(had, key, attribs[k].v)
                   ELSE attrMap[b]])

EmptyMap == [b \in {} |-> <<>>]

\* "pass attributes through to component", over the found elements from k on
RECURSIVE passAttributes(_, _, _, _, _, _)
passAttributes(componentTree, found, k, attrMap, foundDefault, w) ==
    IF k > Len(found)
    THEN [tree |-> componentTree, foundDefaultAttributeTarget |-> foundDefault,
          w |-> w]
    ELSE
    LET innerEl == NodeAt(componentTree, found[k])
        attrVal == GetAttr(innerEl.attribs, <<attrAttribute>>)
        unmarked == [innerEl EXCEPT
                       !.attribs = DeleteAttr(@, <<attrAttribute>>)]
        merged == IF attrVal \in DOMAIN attrMap
                  THEN assignAttributesToElement(unmarked, attrMap[attrVal],
                                                 1, found[k], w)
                  ELSE [el |-> unmarked, w |-> w]
    IN passAttributes(SpliceAt(componentTree, found[k], <<merged.el>>),
                      found, k + 1, attrMap,
                      foundDefault \/ attrVal = "", merged.w)

\* componentTree.find(n => isTag(n)), a first tag that may be a script
firstTag_anyTag(componentTree) ==
    IF \E k \in 1..Len(componentTree) : isTag(componentTree[k])
    THEN CHOOSE k \in 1..Len(componentTree) :
            isTag(componentTree[k])
            /\ \A j \in 1..(k - 1) : ~isTag(componentTree[j])
    ELSE 0

\* componentTree.find(n => isTag(n) && tagName !== "script" && !== "style")
firstTag(componentTree) ==
    LET ok(k) == isTag(componentTree[k])
                 /\ componentTree[k].name \notin {"script", "style"}
    IN IF \E k \in 1..Len(componentTree) : ok(k)
       THEN CHOOSE k \in 1..Len(componentTree) :
               ok(k) /\ \A j \in 1..(k - 1) : ~ok(j)
       ELSE 0

\* ---- slots and yields ----
\* "organize content into slots and yields" over the caller's children
RECURSIVE organizeContent(_, _, _)
organizeContent(children, k, acc) ==
    IF k > Len(children) THEN acc @@ [st |-> "ok"]
    ELSE LET child == children[k]
         IN IF isTag(child) /\ child.name = fillSlotTag
            THEN IF ~HasAttr(child.attribs, <<"slot">>)
                 THEN acc @@ [st |-> "error"]
                 ELSE LET slot == GetAttr(child.attribs, <<"slot">>)
                          had == IF slot \in DOMAIN acc.slotContent
                                 THEN acc.slotContent[slot] ELSE <<>>
                      IN organizeContent(children, k + 1,
                           [acc EXCEPT !.slotContent =
                              [n \in DOMAIN acc.slotContent \cup {slot} |->
                                 IF n = slot THEN had \o child.children
                                 ELSE acc.slotContent[n]]])
            ELSE organizeContent(children, k + 1,
                    [acc EXCEPT !.hasYield = TRUE,
                                !.yieldContent = Append(@, child)])

\* "pass content through to yields" / "to slots": the found elements, from
\* k on, are replaced by clones of the content; an element that left the
\* tree with an element replaced before it (path <<>>) changes nothing
RECURSIVE passContent(_, _, _, _)
passContent(componentTree, found, k, content) ==
    IF k > Len(found) THEN componentTree
    ELSE IF found[k] = <<>>
    THEN passContent(componentTree, found, k + 1, content)
    ELSE
    LET el == NodeAt(componentTree, found[k])
        given == IF el.name = yieldTag
                 THEN content.hasYield
                 ELSE GetAttr(el.attribs, <<"name">>) \in DOMAIN content.slotContent
        clones == IF ~given THEN el.children
                  ELSE IF el.name = yieldTag THEN content.yieldContent
                  ELSE content.slotContent[GetAttr(el.attribs, <<"name">>)]
    IN passContent(SpliceAt(componentTree, found[k], clones),
                   [j \in 1..Len(found) |->
                      IF j > k THEN Shifted(found[j], found[k], Len(clones))
                      ELSE found[j]],
                   k + 1, content)


\* the component sources of the model
Plain == "<p/>"
Direct == "<b/>"
Index == "<i/>"
Marked == "<p attr class='a' style='c:r'><b attr='s'/></p><i/>"
Unmarked == "<script/><p class='a'/><i attr='s'/>"
TextOnly == "T"
Slotted == "<div><yield>D</yield><slot name='a'>E<slot name='b'>F</slot></slot><yield/></div>"
Unnamed == "<p/><slot/>"
Scripted == "<script server>t = props.title</script><p attr>%%t%%</p>"
Forward == "<x-card attr/>"
Pusher == "<push stack='s'><p id='1'>A</p></push>"
Twice == "<script server>t = props.title; u = props.title</script><p>%%u%%</p>"
Evaluated == "<script server>t = props.$title</script><p>%%t%%</p>"
Late == "<script server>props</script><script server>t = props.title</script><p>%%props%%</p>"
Silent == "<script server>t = props.title</script>"
Outer == "<x-card><yield/><slot name='a'>E</slot><fill slot='s'><yield/><slot name='c'>G</slot></fill></x-card>"
Through == "<div><yield/><slot name='s'/></div>"

\* parseHtml(componentFileContent), for the component sources of the model
parseHtml(content) ==
    CASE content = Plain -> <<P(<<>>)>>
      [] content = Direct -> <<B>>
      [] content = Index -> <<I>>
      [] content = Marked ->
            <<Element("p", <<A(attrAttribute, ""), A("class", "a"),
                             A("style", "c:r")>>,
                      <<Element("b", <<A(attrAttribute, "s")>>, <<>>)>>),
              I>>
      [] content = Unmarked ->
            <<Element("script", <<>>, <<>>),
              Element("p", <<A("class", "a")>>, <<>>),
              Element("i", <<A(attrAttribute, "s")>>, <<>>)>>
      [] content = TextOnly -> <<T("T")>>
      [] content = Slotted ->
            <<Element("div", <<>>,
                 <<Yield(<<T("D")>>),
                   Slot("a", <<T("E"), Slot("b", <<T("F")>>)>>),
                   Yield(<<>>)>>)>>
      [] content = Unnamed -> <<P(<<>>), Element(defineSlotTag, <<>>, <<>>)>>
      [] content = Scripted ->
            <<Element("script", <<A("server", "")>>,
                      <<T("t = props.title")>>),
              Element("p", <<A(attrAttribute, "")>>, <<X("t")>>)>>
      [] content = Forward -> <<Card(<<A(attrAttribute, "")>>, <<>>)>>
      [] content = Pusher -> <<Push("s", <<Pid("1", "A")>>)>>
      [] content = Twice ->
            <<Element("script", <<A("server", "")>>,
                      <<T("t = props.title; u = props.title")>>),
              P(<<X("u")>>)>>
      [] content = Late ->
            <<Element("script", <<A("server", "")>>, <<T("props")>>),
              Element("script", <<A("server", "")>>,
                      <<T("t = props.title")>>),
              P(<<X("props")>>)>>
      [] content = Outer ->
            <<Card(<<>>,
                 <<Yield(<<>>), Slot("a", <<T("E")>>),
                   Fill("s", <<Yield(<<>>), Slot("c", <<T("G")>>)>>)>>)>>
      [] content = Through ->
            <<Element("div", <<>>, <<Yield(<<>>), Slot("s", <<>>)>>)>>
      [] content = Silent ->
            <<Element("script", <<A("server", "")>>,
                      <<T("t = props.title")>>)>>
      [] content = Evaluated ->
            <<Element("script", <<A("server", "")>>,
                      <<T("t = props.$title")>>),
              P(<<X("t")>>)>>
      [] OTHER -> <<>>

RemoveServerScripts(componentTree) ==
    SelectSeq(componentTree, LAMBDA n : ~isServerScript(n))

\* ---- processNode, "components": x is the call so far, that is the list,
\* the index of the component element in it, the scope, the component name
\* and what the steps before have produced ----

\* "insert component content"
componentInsert(x, componentTree, w) ==
    Result(IF x.owned THEN Splice(x.tree, x.i, componentTree)
           ELSE ReplaceAt(x.tree, x.i,
                   [x.tree[x.i] EXCEPT !.attribs = x.attribs,
                                       !.children = x.children]),
           Len(componentTree),
           [w EXCEPT !.expansions =
               Append(@, [name |-> x.name, from |-> x.from,
                          content |-> x.content, attribs |-> x.attribs,
                          body |-> x.body, merged |-> x.merged,
                          parts |-> x.parts, tree |-> componentTree,
                          firstMerge |-> x.firstMerge,
                          lastMerge |-> x.lastMerge])])

\* "pass content through to slots", slotEls being the slots found in the
\* tree the yields were replaced in
componentSlots(x, yielded, slotEls, w) ==
    IF \E k \in 1..Len(slotEls) :
          ~HasAttr(NodeAt(yielded, slotEls[k]).attribs, <<"name">>)
    THEN Thrown(x.tree, "Slot tag must have a name attribute", w)
    ELSE componentInsert(x, passContent(yielded, slotEls, 1, x.parts), w)

\* findElements(componentTree, defineSlotTag), after the yields
componentYielded(x, yielded, w) ==
    componentSlots(x, yielded, findElements(yielded, <<>>, defineSlotTag), w)

\* "pass content through to yields"
componentOrganized(x, parts, w) ==
    IF parts.st # "ok"
    THEN Thrown(x.tree, "Fill tag must have a slot attribute", w)
    ELSE componentYielded(x @@ [parts |-> parts],
            passContent(x.merged, findElements(x.merged, <<>>, yieldTag),
                        1, parts), w)

\* "organize content into slots and yields": content is what
\* processTree(node.children, scope) handed back
componentContent(x, content) ==
    IF content.st # "ok" THEN Failed(x.tree, content)
    ELSE componentOrganized(x @@ [children |-> content.tree],
            organizeContent(content.tree, 1,
                [hasYield |-> FALSE, yieldContent |-> <<>>,
                 slotContent |-> EmptyMap]),
            content.w)

\* "recurse into content": byDefault is the component tree after the
\* attributes were passed
componentMerged(x, byDefault) ==
    componentContent(
        x @@ [merged |-> byDefault.tree,
              lastMerge |-> Len(byDefault.w.merges)],
        processTree(x.tree[x.i].children, 1, TRUE, x.scope, byDefault.w))

\* assignAttributesToElement(firstTag, attrMap[""])
mergeIntoFirstTag(componentTree, first, m) ==
    [tree |-> ReplaceAt(componentTree, first, m.el), w |-> m.w]

\* "add attributes to first tag if no default slot was found": marked is
\* the component tree after the loop over the elements with an attr attribute
componentMarked(x, marked) ==
    LET first == firstTag(marked.tree)
    IN componentMerged(x,
          IF /\ ~marked.foundDefaultAttributeTarget
             /\ "" \in DOMAIN x.attrMap
             /\ first # 0
          THEN mergeIntoFirstTag(marked.tree, first,
                  assignAttributesToElement(marked.tree[first],
                      x.attrMap[""], 1, <<first>>, marked.w))
          ELSE [tree |-> marked.tree, w |-> marked.w])

\* "organize attributes into a map" and "pass attributes through to
\* component": body is what processTree(componentTree, innerComponentScope)
\* handed back
componentProcessed(x, body, attrMap) ==
    IF body.st # "ok" THEN Failed(x.tree, body)
    ELSE componentMarked(
            x @@ [body |-> body.tree, attrMap |-> attrMap,
                  firstMerge |-> Len(body.w.merges) + 1],
            passAttributes(body.tree,
                findElements(body.tree, <<>>, "[attr]"), 1, attrMap,
                FALSE, body.w))

\* "delete innerComponentScope.props" and processTree(componentTree,
\* innerComponentScope): s is the run of the server scripts
componentScripted(x, s) ==
    IF s.st # "ok" THEN Thrown(x.tree, "evaluation", s.w)
    ELSE componentProcessed(x @@ [attribs |-> s.attribs],
            processTree(RemoveServerScripts(parseHtml(x.content)), 1, TRUE,
                        deleteProps(s.inner, x.scope), s.w),
            organizeAttributes(s.attribs, 1, EmptyMap))

\* parseHtml(componentFileContent), the props proxy and the server scripts:
\* l is the outcome of the loading
componentLoaded(x, l) ==
    IF l.st # "ok" THEN Thrown(x.tree, l.msg, l.w)
    ELSE componentScripted(x @@ [from |-> l.from, content |-> l.content],
            runServerScripts(parseHtml(l.content), 1,
                [target |-> [k \in {} |-> JSUndefined],
                 attribs |-> x.tree[x.i].attribs,
                 inner |-> Bind(x.scope, "props", propsProxy)],
                x.scope, l.w))

\* processNode, "components", once the name is known: tree[i] is the
\* element, with the name attribute of a component tag removed
expandComponent(tree, i, owned, scope, componentName, w) ==
    componentLoaded([tree |-> tree, i |-> i, owned |-> owned,
                     scope |-> scope, name |-> componentName],
                    loadComponent(componentName, w))

\* processNode, "components"
processComponent(tree, i, owned, scope, w) ==
    IF isComponentByTag(tree[i]) /\ ~HasAttr(tree[i].attribs, <<"name">>)
    THEN Thrown(tree, "Component tag must have a name attribute", w)
    ELSE IF isComponentByTag(tree[i])
    THEN expandComponent(
            ReplaceAt(tree, i,
               [tree[i] EXCEPT !.attribs = DeleteAttr(@, <<"name">>)]),
            i, owned, scope, GetAttr(tree[i].attribs, <<"name">>), w)
    ELSE expandComponent(tree, i, owned, scope, PrefixedNames[tree[i].name], w)

\* processNode, the text node tree[i]: e is what replaceAll handed back
processText(tree, i, e) ==
    IF e.st # "ok" THEN Thrown(tree, "evaluation", e.w)
    ELSE Result(ReplaceAt(tree, i, Text(e.data)), 1, e.w)

\* processNode, the last two lines: c is what
\* processTree(node.children, scope) handed back
processChildren(tree, i, c) ==
    IF c.st # "ok" THEN Failed(tree, c)
    ELSE Result(ReplaceAt(tree, i, [tree[i] EXCEPT !.children = c.tree]),
                1, c.w)

\* processNode from "dynamic tags" on: a is the outcome of the loop
\* "evaluate attributes"
processElement(tree, i, owned, a) ==
    LET node == [tree[i] EXCEPT !.attribs = a.attribs]
        tree1 == ReplaceAt(tree, i, node)
    IN IF a.st # "ok" THEN Thrown(tree1, "evaluation", a.w)
       ELSE IF node.name = dynamicTag
       THEN processDynamic(tree1, i, owned, a.scope, a.w)
       ELSE IF node.name = "if"
       THEN processConditional(tree1, i, owned, a.scope, a.w)
       ELSE IF node.name = "elseif"
       THEN Thrown(tree1, "Unexpected elseif", a.w)
       ELSE IF node.name = "else"
       THEN Thrown(tree1, "Unexpected else", a.w)
       ELSE IF node.name = "switch"
       THEN processSwitch(tree1, i, owned, a.scope, a.w)
       ELSE IF node.name = "for"
       THEN processFor(tree1, i, owned, a.scope, a.w)
       ELSE IF isComponentByPrefix(node) \/ isComponentByTag(node)
       THEN processComponent(tree1, i, owned, a.scope, a.w)
       ELSE processChildren(tree1, i,
               processTree(node.children, 1, TRUE, a.scope, a.w))

\* processNode(node, prototypeScope), node being tree[i]
processNode(tree, i, owned, prototypeScope, w) ==
    IF isText(tree[i])
    THEN processText(tree, i,
            replaceAll(tree[i].data, 1, <<>>, prototypeScope, w))
    ELSE IF ~isTag(tree[i]) THEN Result(tree, 1, w)
    ELSE processElement(tree, i, owned,
            evaluateAttributes(tree[i].attribs, 1, tree[i].attribs,
                               prototypeScope, w))

\* ------------------------------------------------------------------------
\* The stack processor, processStacks(tree)
\*
\* An element the pass holds a reference to is named by its path in the tree
\* processStacks was called on. removeElement takes an element out of the
\* children of its parent and changes nothing else, so what a reference
\* denotes later on is the node at its path without the elements that were
\* removed from below it in the meantime.
\* ------------------------------------------------------------------------
\* the nodes of list (the children of the node at path prefix) that are
\* left once removeElement was called on the elements at the paths removed
RECURSIVE Attached(_, _, _)
Attached(list, prefix, removed) ==
    LET RECURSIVE from(_)
        from(k) ==
            IF k > Len(list) THEN <<>>
            ELSE (IF Append(prefix, k) \in removed THEN <<>>
                  ELSE <<[list[k] EXCEPT !.children =
                             Attached(@, Append(prefix, k), removed)]>>)
                 \o from(k + 1)
    IN from(1)

NoStacks == [n \in {} |-> [content |-> <<>>, ids |-> {}]]

\* "only push content if the id is not already in the stack": the loop over
\* pushEl.children from the child c on; info is stackInfo[stackName], its
\* content the references to the children pushed
RECURSIVE pushChildren(_, _, _, _)
pushChildren(children, path, c, info) ==
    IF c > Len(children) THEN info
    ELSE IF /\ isTag(children[c])
            /\ HasAttr(children[c].attribs, <<"id">>)
            /\ GetAttr(children[c].attribs, <<"id">>) \in info.ids
    THEN pushChildren(children, path, c + 1, info)
    ELSE pushChildren(children, path, c + 1,
            [content |-> Append(info.content, Append(path, c)),
             ids |-> IF /\ isTag(children[c])
                        /\ HasAttr(children[c].attribs, <<"id">>)
                     THEN info.ids \cup {GetAttr(children[c].attribs, <<"id">>)}
                     ELSE info.ids])

\* "find all pushes first": the loop over the elements findElements handed
\* back, from the k-th on. findElements lists an element before the elements
\* below it, so a push element has all its children when its turn comes.
RECURSIVE collectPushes(_, _, _, _)
collectPushes(tree, found, k, stackInfo) ==
    IF k > Len(found)
    THEN [st |-> "ok", msg |-> "", stackInfo |-> stackInfo]
    ELSE IF ~HasAttr(NodeAt(tree, found[k]).attribs, <<"stack">>)
    THEN [st |-> "error", msg |-> "Push tag must have a stack attribute",
          stackInfo |-> stackInfo]
    ELSE LET pushEl == NodeAt(tree, found[k])
             stackName == GetAttr(pushEl.attribs, <<"stack">>)
             had == IF stackName \in DOMAIN stackInfo
                    THEN stackInfo[stackName]
                    ELSE [content |-> <<>>, ids |-> {}]
         IN collectPushes(tree, found, k + 1,
               [n \in DOMAIN stackInfo \cup {stackName} |->
                   IF n = stackName
                   THEN pushChildren(pushEl.children, found[k], 1, had)
                   ELSE stackInfo[n]])

\* stackInfo[name]?.content ?? [], as the nodes the references denote once
\* every push element was removed from its parent
stackContent(tree, stackInfo, removed, name) ==
    IF name \in DOMAIN stackInfo
    THEN [j \in 1..Len(stackInfo[name].content) |->
            [NodeAt(tree, stackInfo[name].content[j]) EXCEPT
                !.children =
                    Attached(@, stackInfo[name].content[j], removed)]]
    ELSE <<>>

\* "then insert the pushed content into the stack": the stack elements
\* found, from the k-th on, are replaced by clones of the content; for one
\* that left the tree with a stack element replaced before it (path <<>>)
\* prepend and removeElement change nothing in the tree
RECURSIVE insertStacks(_, _, _, _)
insertStacks(tree, found, k, content) ==
    IF k > Len(found) THEN tree
    ELSE IF found[k] = <<>> THEN insertStacks(tree, found, k + 1, content)
    ELSE LET clones ==
                 content[GetAttr(NodeAt(tree, found[k]).attribs, <<"name">>)]
         IN insertStacks(SpliceAt(tree, found[k], clones),
               [j \in 1..Len(found) |->
                   IF j > k THEN Shifted(found[j], found[k], Len(clones))
                   ELSE found[j]],
               k + 1, content)

\* children.find(el => isTag(el) && el.tagName === name): its index, 0 if
\* there is none
firstChild(list, name) ==
    IF \E k \in 1..Len(list) : isTag(list[k]) /\ list[k].name = name
    THEN CHOOSE k \in 1..Len(list) :
            /\ isTag(list[k]) /\ list[k].name = name
            /\ \A j \in 1..(k - 1) : ~(isTag(list[j]) /\ list[j].name = name)
    ELSE 0

\* getDepth(titleEl) walks up from a title to body; the walk of a title
\* below a title that was removed before it reaches the removed title, whose
\* parent is null, and reads null.parent
nestedTitle(titles) ==
    \E i, j \in 1..Len(titles) :
        /\ Len(titles[i]) < Len(titles[j])
        /\ SubSeq(titles[j], 1, Len(titles[i])) = titles[i]

\* "find deepest title": depth >= deepestDepth, so the last of the deepest
deepestTitle(titles) ==
    CHOOSE k \in 1..Len(titles) :
        /\ \A j \in 1..Len(titles) : Len(titles[j]) <= Len(titles[k])
        /\ \A j \in (k + 1)..Len(titles) : Len(titles[j]) < Len(titles[k])

\* "move titles to head", the body of the loop for one html element: the
\* element afterwards, the paths (below it) of the elements removed and
\* whether a head was put in front of its children
moveTitles(htmlEl) ==
    LET body == firstChild(htmlEl.children, "body")
        head == firstChild(htmlEl.children, "head")
        titles == IF body = 0 THEN <<>>
                  ELSE findElements(htmlEl.children[body].children, <<body>>,
                                    "title")
        inHead == IF head = 0 THEN <<>>
                  ELSE findElements(htmlEl.children[head].children, <<head>>,
                                    "title")
        removed == {titles[k] : k \in 1..Len(titles)}
                   \cup {inHead[k] : k \in 1..Len(inHead)}
        left == Attached(htmlEl.children, <<>>, removed)
        clone == NodeAt(htmlEl.children, titles[deepestTitle(titles)])
    IN IF titles = <<>>
       THEN [st |-> "ok", el |-> htmlEl, removed |-> {}, prepended |-> FALSE]
       ELSE IF nestedTitle(titles)
       THEN [st |-> "error", el |-> htmlEl, removed |-> {},
             prepended |-> FALSE]
       ELSE IF head # 0
       THEN [st |-> "ok",
             el |-> [htmlEl EXCEPT !.children =
                        [left EXCEPT ![head].children = Append(@, clone)]],
             removed |-> removed, prepended |-> FALSE]
       ELSE [st |-> "ok",
             el |-> [htmlEl EXCEPT !.children =
                        <<Element("head", <<>>, <<clone>>)>> \o left],
             removed |-> removed, prepended |-> TRUE]

\* where the element at path q is once the titles of the html element at
\* path h were moved (m); <<>> when it left the tree with a title
Tracked(q, h, m) ==
    IF ~(Len(q) > Len(h) /\ SubSeq(q, 1, Len(h)) = h) THEN q
    ELSE LET rel == SubSeq(q, Len(h) + 1, Len(q))
             before(j) == {r \in m.removed :
                             /\ Len(r) = j
                             /\ SubSeq(r, 1, j - 1) = SubSeq(rel, 1, j - 1)
                             /\ r[j] < rel[j]}
         IN IF \E r \in m.removed :
                  Len(r) <= Len(rel) /\ SubSeq(rel, 1, Len(r)) = r
            THEN <<>>
            ELSE h \o [j \in 1..Len(rel) |->
                         rel[j] - Cardinality(before(j))
                         + (IF j = 1 /\ m.prepended THEN 1 ELSE 0)]

\* "handle full documents": the loop over htmlEls from the k-th on. An
\* html element that left the tree was below a title of an html element
\* handled before it, which left no title in it.
RECURSIVE moveAllTitles(_, _, _)
RECURSIVE titlesMoved(_, _, _, _)
titlesMoved(tree, found, k, m) ==
    IF m.st # "ok" THEN [st |-> "error", msg |-> "TypeError", tree |-> tree]
    ELSE moveAllTitles(SpliceAt(tree, found[k], <<m.el>>),
            [j \in 1..Len(found) |->
                IF j > k THEN Tracked(found[j], found[k], m) ELSE found[j]],
            k + 1)
moveAllTitles(tree, found, k) ==
    IF k > Len(found) THEN [st |-> "ok", msg |-> "", tree |-> tree]
    ELSE IF found[k] = <<>> THEN moveAllTitles(tree, found, k + 1)
    ELSE titlesMoved(tree, found, k, moveTitles(NodeAt(tree, found[k])))

\* for (const titleEl of findElements(tree, "title")) removeElement(titleEl)
removeTitles(tree) ==
    LET titles == findElements(tree, <<>>, "title")
    IN Attached(tree, <<>>, {titles[k] : k \in 1..Len(titles)})

\* the title pass that removes the titles of every partial document
relocateTitles_alwaysRemove(tree, titleBehavior, htmlEls, s) ==
    IF htmlEls = <<>>
    THEN s @@ [st |-> "ok", msg |-> "", tree |-> removeTitles(tree)]
    ELSE s @@ moveAllTitles(tree, htmlEls, 1)

\* "move titles to head" and "optionally remove titles in partial
\* documents": tree holds the stacks' content, s is what the passes before
\* have found
relocateTitles(tree, titleBehavior, htmlEls, s) ==
    IF htmlEls = <<>>
    THEN s @@ [st |-> "ok", msg |-> "",
               tree |-> IF titleBehavior = "remove" THEN removeTitles(tree)
                        ELSE tree]
    ELSE s @@ moveAllTitles(tree, htmlEls, 1)

\* the title pass over placed, the tree with the stacks filled in
titlesOf(placed, titleBehavior, s) ==
    relocateTitles(placed, titleBehavior, findElements(placed, <<>>, "html"),
                   [s EXCEPT !.placed = placed])

\* "then insert the pushed content into the stack": pushed is the tree
\* without the push elements (the paths removed of tree), stackEls the
\* stack elements found in it
replayStacks(tree, pushed, titleBehavior, stackEls, removed, stackInfo) ==
    LET named == {k \in 1..Len(stackEls) :
                    HasAttr(NodeAt(pushed, stackEls[k]).attribs, <<"name">>)}
        content ==
            [n \in {GetAttr(NodeAt(pushed, stackEls[k]).attribs, <<"name">>) :
                       k \in named} |->
                stackContent(tree, stackInfo, removed, n)]
        s == [stackInfo |-> stackInfo, pushed |-> pushed, placed |-> pushed,
              content |-> content]
    IN IF named # 1..Len(stackEls)
       THEN s @@ [st |-> "error",
                  msg |-> "Stack tag must have a name attribute",
                  tree |-> pushed]
       ELSE titlesOf(insertStacks(pushed, stackEls, 1, content),
                     titleBehavior, s)

\* processStacks(tree): what it leaves of the tree, how it ended, and what
\* it has accumulated for each stack
processStacks(tree, titleBehavior) ==
    LET pushEls == findElements(tree, <<>>, pushTag)
        c == collectPushes(tree, pushEls, 1, NoStacks)
        removed == {pushEls[k] : k \in 1..Len(pushEls)}
        pushed == Attached(tree, <<>>, removed)
    IN IF c.st # "ok"
       THEN [st |-> c.st, msg |-> c.msg, tree |-> tree,
             stackInfo |-> c.stackInfo, pushed |-> tree, placed |-> tree,
             content |-> [n \in {} |-> <<>>]]
       ELSE replayStacks(tree, pushed, titleBehavior,
                         findElements(pushed, <<>>, stackTag), removed,
                         c.stackInfo)

\* ------------------------------------------------------------------------
\* The constructor: getDefaultOptions and the component overrides
\* ------------------------------------------------------------------------
\* attributeMergeStrategies: the strategies passed, then the built-in class
\* and style strategies unless a strategy of that name was passed
getDefaultOptions(passedAttributeMergeStrategies) ==
    LET named(n) == \E j \in 1..Len(passedAttributeMergeStrategies) :
                       /\ passedAttributeMergeStrategies[j].by = "name"
                       /\ passedAttributeMergeStrategies[j].key = <<n>>
        builtin(n) == [by |-> "name", key |-> <<n>>, merge |-> n]
    IN passedAttributeMergeStrategies
       \o (IF named("class") THEN <<>> ELSE <<builtin("class")>>)
       \o (IF named("style") THEN <<>> ELSE <<builtin("style")>>)

\* k.match(/[a-z]+|[A-Z][a-z]+|[A-Z]+|\d+/g)?.join("-").toLowerCase()
kebabCase(k) ==
    CASE k = "Card" -> "card"
      [] OTHER -> k

\* "convert components to kebab case and store"
convertComponents(components) ==
    [n \in {kebabCase(k) : k \in DOMAIN components} |->
        components[CHOOSE k \in DOMAIN components : kebabCase(k) = n]]

\* ------------------------------------------------------------------------
\* The inputs of the model
\* ------------------------------------------------------------------------
MaxCompiles == 2

\* evalContext: t holds a string that matches the content pattern
evalContext == [n \in {"t"} |-> JSStr("%%1%%")]

\* templates of control flow and evaluation
Ifs ==
    {If(c, b) : c \in {"true", "false"},
                b \in {<<>>, <<T("A")>>, <<X("t"), P(<<>>)>>}}
Branches ==
    {Elseif(c, <<T("B")>>) : c \in {"true", "false"}} \cup {Else(<<T("C")>>)}
Switches ==
    {Switch("1", <<Case("2", <<T("A")>>), Case("1", <<T("B"), P(<<>>)>>),
                   T(" "), Case("1", <<T("C")>>), Default(<<T("D")>>)>>),
     Switch("2", <<Default(<<T("D")>>), Case("1", <<T("B")>>)>>),
     Switch("2", <<Case("1", <<T("B")>>)>>),
     Switch("1", <<Element("case", <<A("case", "1"), A("default", "")>>,
                           <<T("A")>>)>>),
     Switch("1", <<Case("1", <<>>)>>),
     Element("switch", <<>>, <<>>)}
Dynamics ==
    {Dynamic(tag, b) : tag \in {"null", "false", "'p'", "'if'", "1", "'a b'"},
                       b \in {<<>>, <<T("A")>>}}
    \cup {Dynamic(tag, <<T("A")>>) : tag \in {"undefined", "true", "''", "[]"}}
    \cup {Element(dynamicTag, <<A("class", "a")>>, <<T("A")>>),
          Element(dynamicTag, <<A("id", "d"), A("tag", "'p'"),
                                Attr(<<"eval", "class">>, "'a'")>>,
                  <<X("1"), B>>)}
EvaluatedAttributes ==
    {Element("p", attribs, <<>>) :
        attribs \in {<<Attr(<<"eval", "a">>, v)>> :
                        v \in {"true", "false", "null", "undefined", "1",
                               "'a'", "''", "nope"}}
                    \cup {<<A("a", "z"), Attr(<<"eval", "a">>, "false")>>,
                          <<A("a", "z"), Attr(<<"eval", "a">>, "'b'")>>,
                          <<Attr(<<"eval", "eval", "a">>, "'a'")>>,
                          <<Attr(<<"eval", "a">>, "'b'"),
                            Attr(<<"eval", "b">>, "true"), A("c", "1")>>}}
Texts ==
    {T("A"), X("t"), X("x"), X("false"),
     Text(<<Lit("a"), Code("1"), Code("null"), Code("'b'")>>)}
LoopBodies ==
    {<<P(<<X("x")>>)>>, <<T("A"), P(<<>>)>>, <<>>}
    \cup {<<n>> : n \in Ifs \cup Switches}
    \cup {<<Dynamic("null", <<T("A")>>)>>, <<Dynamic("'p'", <<T("A")>>)>>,
          <<If("true", <<T("A")>>), Else(<<T("C")>>)>>,
          <<For("[1]", <<T("A")>>)>>}
Loops ==
    {For(in, b) : in \in {"[]", "[1]", "[1,2]"}, b \in LoopBodies}
    \cup {For("1", <<T("A")>>), Element("for", <<A("in", "[1]")>>, <<T("A")>>)}
Top == Texts \cup Ifs \cup Branches \cup Switches \cup Dynamics
       \cup EvaluatedAttributes \cup Loops
       \cup {P(<<If("true", <<T("A")>>), Else(<<>>)>>)}
Followers == {T(" "), T("x"), P(<<>>)} \cup Branches
FlowTemplates ==
    {<<a>> : a \in Top}
    \cup {<<a, b>> : a \in Top, b \in Followers}
    \cup {<<a, b, c>> : a \in Ifs, b \in Followers, c \in Followers}

\* templates that refer to the component card, to row (which forwards to
\* card) and to the component tag
References ==
    {Card(<<>>, <<>>),
     Card(<<A("class", "b"), A("id", "1")>>, <<>>),
     Card(<<Attr(<<attrAttribute, "s", "id">>, "1"),
            Attr(<<attrAttribute, "z", "k">>, "v"), A("class", "b")>>, <<>>),
     Card(<<Attr(<<attrAttribute, "s", "eval", "x">>, "'b'")>>, <<>>),
     Card(<<Attr(<<"eval", "class">>, "'b'"),
            Attr(<<"eval", attrAttribute, "s", "id">>, "'a'")>>, <<>>),
     Card(<<A(attrAttribute, "a")>>, <<>>),
     Card(<<A("style", "c:b"), A("class", ""), A("data-a", "1")>>, <<>>),
     Card(<<A("title", "a"), A("class", "b")>>, <<>>),
     Card(<<A("data-a", "1"), A("data-b", "2"), A("class", "b"),
            A("style", "c:b"), A("id", "1")>>, <<>>),
     Card(<<A("id", "1"), A("title", "'a'"), Attr(<<"eval", "class">>, "'b'")>>,
          <<>>),
     Card(<<>>, <<T("T")>>),
     Card(<<>>, <<Fill("a", <<T("X")>>), Fill("a", <<T("Y"), B>>)>>),
     Card(<<>>, <<Fill("b", <<T("Z")>>), X("t")>>),
     Card(<<>>, <<Element(fillSlotTag, <<>>, <<T("X")>>)>>),
     Element("x-row", <<A("class", "b")>>, <<>>),
     Element(componentTag, <<A("name", "card"), A("class", "b")>>, <<>>),
     Element(componentTag, <<>>, <<>>),
     For("[1,2]", <<Card(<<A("class", "b")>>, <<>>)>>)}

\* templates that make the instance resolve component names
LoadTemplates ==
    {<<Card(<<>>, <<>>)>>,
     <<Element(componentTag, <<A("name", "card")>>, <<>>)>>,
     <<Element("x-ui.card", <<>>, <<>>)>>,
     <<Card(<<>>, <<>>), Card(<<>>, <<>>)>>}

\* templates with push and stack elements, with titles, and plain HTML
StackTemplates ==
    {<<El("div", <<Push("s", <<Pid("1", "A")>>)>>),
       Push("s", <<Pid("1", "B"), T("C")>>), Stack("s", <<>>)>>,
     <<Push("s", <<Pid("1", "A"), B>>),
       Push("s", <<Pid("1", "B"), Pid("2", "C")>>), Stack("s", <<>>)>>,
     <<Stack("s", <<>>), El("div", <<Push("s", <<P(<<>>)>>)>>),
       Stack("s", <<>>)>>,
     <<El("div", <<Card(<<>>, <<>>), Card(<<>>, <<>>)>>), Stack("s", <<>>)>>,
     <<Push("a", <<Push("b", <<P(<<>>)>>)>>), Stack("a", <<>>),
       Stack("b", <<>>)>>,
     <<Push("a", <<El("div", <<Push("b", <<P(<<>>)>>)>>)>>),
       Stack("a", <<>>), Stack("b", <<>>)>>,
     <<Push("a", <<Stack("a", <<>>)>>), Stack("a", <<>>)>>,
     <<Push("a", <<Element(stackTag, <<>>, <<>>)>>), Stack("a", <<>>)>>,
     <<Stack("s", <<Stack("s", <<>>), B>>), Push("s", <<I>>)>>,
     <<Stack("z", <<>>), B>>,
     <<Element(pushTag, <<>>, <<B>>)>>,
     <<Push("s", <<B>>), Element(stackTag, <<>>, <<>>)>>,
     <<El("html", <<El("head", <<>>), El("body", <<El("title", <<T("N")>>)>>)>>)>>,
     <<El("html", <<El("head", <<El("title", <<T("O")>>)>>),
                    El("body", <<El("title", <<T("N")>>),
                                 El("div", <<El("title", <<T("W")>>)>>),
                                 El("title", <<T("L")>>)>>)>>)>>,
     <<El("html", <<El("body", <<B, El("title", <<T("N")>>)>>)>>)>>,
     <<El("html", <<El("body", <<El("title", <<El("title", <<>>)>>)>>)>>)>>,
     <<El("html", <<El("head", <<El("title", <<T("O")>>)>>),
                    El("body", <<P(<<T("A")>>)>>)>>)>>,
     <<El("html", <<El("title", <<T("N")>>)>>)>>,
     <<El("html", <<El("body", <<>>), El("body", <<El("title", <<T("N")>>)>>)>>)>>,
     <<El("html", <<El("body", <<El("html",
          <<El("body", <<El("title", <<T("N")>>)>>)>>)>>)>>)>>,
     <<El("title", <<T("N")>>), El("div", <<El("title", <<>>), B>>)>>,
     <<El("div", <<T("A"), P(<<>>)>>), T("B")>>,
     <<Element("p", <<A("class", "a"), A("eval", "1")>>, <<T("A")>>)>>}

\* templates that bind a variable and read it elsewhere
ScopeTemplates ==
    {<<Element("if", <<Attr(<<"eval", "a">>, "y = 1"), A("condition", "false")>>,
               <<T("A")>>),
       Elseif("y", <<T("B")>>)>>,
     <<If("false", <<T("A")>>), Elseif("y", <<T("B")>>)>>,
     <<If("false", <<T("A")>>), Elseif("true", <<T("B")>>)>>,
     <<Element("p", <<Attr(<<"eval", "a">>, "y = 1")>>, <<El("i", <<X("y")>>)>>)>>,
     <<Element("p", <<Attr(<<"eval", "a">>, "y = 1")>>, <<>>), X("y")>>,
     <<P(<<Element("i", <<Attr(<<"eval", "a">>, "y = 1")>>, <<>>), X("y")>>)>>,
     <<P(<<El("i", <<X("x")>>)>>)>>,
     <<For("[1]", <<P(<<El("i", <<X("x")>>)>>)>>), X("x")>>,
     <<If("false", <<T("A")>>), X("1"), Elseif("true", <<T("B")>>)>>,
     <<Card(<<A("title", "a")>>, <<>>), X("u")>>,
     <<Card(<<A("title", "a")>>, <<X("u")>>)>>,
     <<Element("x-row", <<A("title", "a")>>, <<X("t")>>)>>,
     <<For("[1]", <<Element("x-row", <<A("title", "a")>>, <<X("t")>>)>>)>>,
     <<If("false", <<T("A")>>), Element("elseif", <<>>, <<T("B")>>)>>,
     <<Element("if", <<Attr(<<"eval", "condition">>, "'a'")>>, <<T("A")>>)>>,
     <<Element("if", <<A("id", "1")>>, <<T("A")>>)>>,
     <<Element("for", <<A("item", "x")>>, <<T("A")>>)>>,
     <<Element("for", <<A("item", "1x"), A("in", "[1]")>>, <<X("1")>>)>>,
     <<Element("for", <<A("item", "1"), A("in", "[1]")>>, <<X("1")>>)>>,
     <<Element(componentTag, <<A("id", "1")>>, <<>>)>>}

\* references to a component whose body hands placeholders on to another
ProjectionTemplates ==
    {<<Element("x-row", <<>>, <<T("X")>>)>>,
     <<Element("x-row", <<>>, <<Fill("a", <<T("Y")>>)>>)>>,
     <<Element("x-row", <<>>,
               <<T("X"), Fill("a", <<T("Y")>>), Fill("c", <<T("Z")>>)>>)>>}

TemplatesOf(u) ==
    CASE u = "flow" -> FlowTemplates
      [] u = "components" -> {<<a>> : a \in References}
      [] u = "load" -> LoadTemplates
      [] u = "stacks" -> StackTemplates
      [] u = "scope" -> ScopeTemplates
      [] u = "projection" -> ProjectionTemplates

\* options.attributeMergeStrategies as a user may pass them
PassedStrategies ==
    {<<>>,
     <<[by |-> "name", key |-> <<"class">>, merge |-> "keep"],
       [by |-> "pattern", key |-> "^data-", merge |-> "true"],
       [by |-> "name", key |-> <<"id">>, merge |-> "null"]>>,
     <<[by |-> "pattern", key |-> "^data-", merge |-> "true"],
       [by |-> "name", key |-> <<"data-a">>, merge |-> "keep"],
       [by |-> "pattern", key |-> "^cl", merge |-> "null"],
       [by |-> "name", key |-> <<"style">>, merge |-> "keep"],
       [by |-> "pattern", key |-> "^data-", merge |-> "null"]>>}

NoFiles == [f \in {} |-> ""]

\* the files under componentsRoot: card.html and card/index.html may each be
\* missing, readable or unreadable; ui/card/index.html is there
Files ==
    {[f \in {"ui/card/index.html"}
            \cup (IF d = "" THEN {} ELSE {"card.html"})
            \cup (IF x = "" THEN {} ELSE {"card/index.html"}) |->
        CASE f = "card.html" -> d
          [] f = "card/index.html" -> x
          [] OTHER -> Index] :
     d \in {"", Direct, "EACCES"}, x \in {"", Index, "EACCES"}}

\* a components root with an index file of its own, a file whose name has
\* a dot in it and a file that is no .html file
RootFiles ==
    [f \in {"card.html", "index.html", "my.card.html", "ui/card/index.html",
            "ui/notes.txt"} |->
        CASE f = "card.html" -> Direct
          [] f = "index.html" -> Plain
          [] f = "my.card.html" -> TextOnly
          [] f = "ui/card/index.html" -> Index
          [] f = "ui/notes.txt" -> "T"]

\* the files of the instances that call preloadComponents
PreloadedFiles ==
    {RootFiles}
    \cup {f \in Files : /\ "card.html" \in DOMAIN f
                        /\ "card/index.html" \in DOMAIN f
                        /\ f["card/index.html"] = Index}

\* the options a compiler instance of the model is constructed with, the
\* templates it is given, and whether its owner calls preloadComponents
Instances ==
    {[components |-> NoFiles, fs |-> NoFiles, cacheComponents |-> TRUE,
      attributeMergeStrategies |-> <<>>, universe |-> "flow"]}
    \cup {[components |-> [k \in {"Card", "row"} |->
                             IF k = "Card" THEN body ELSE Forward],
           fs |-> NoFiles, cacheComponents |-> TRUE,
           attributeMergeStrategies |-> s, universe |-> "components"] :
          body \in {Marked, Unmarked, TextOnly, Slotted, Unnamed, Scripted,
                    Twice, Evaluated, Late},
          s \in PassedStrategies}
    \cup {[components |-> c, fs |-> f, cacheComponents |-> b,
           attributeMergeStrategies |-> <<>>, universe |-> "load"] :
          c \in {NoFiles, [k \in {"Card"} |-> Plain]},
          f \in Files, b \in BOOLEAN}
    \cup {[components |-> c, fs |-> f, cacheComponents |-> b,
           attributeMergeStrategies |-> <<>>, universe |-> "load",
           preloads |-> TRUE] :
          c \in {NoFiles, [k \in {"Card"} |-> Plain]},
          f \in PreloadedFiles, b \in BOOLEAN}
    \cup {[components |-> [k \in {"Card"} |-> Pusher], fs |-> NoFiles,
           cacheComponents |-> TRUE, attributeMergeStrategies |-> <<>>,
           universe |-> "stacks", titleBehaviorInPartial |-> o] :
          o \in {"preserve", "remove"}}
    \cup {[components |-> [k \in {"Card", "row"} |->
                             IF k = "Card" THEN Twice ELSE Silent],
           fs |-> NoFiles,
           cacheComponents |-> TRUE, attributeMergeStrategies |-> <<>>,
           universe |-> "scope"]}
    \cup {[components |-> [k \in {"Card", "row"} |->
                             IF k = "Card" THEN Through ELSE Outer],
           fs |-> NoFiles, cacheComponents |-> TRUE,
           attributeMergeStrategies |-> <<>>, universe |-> "projection"]}

\* ------------------------------------------------------------------------
\* The compiler as a state machine
\* ------------------------------------------------------------------------
VARIABLES
    passedComponents,  \* this.passedComponents
    fs,                \* the files under componentsRoot
    cacheComponents,   \* options.cacheComponents
    passedAttributeMergeStrategies, \* the strategies passed as an option
    strategies,        \* options.attributeMergeStrategies
    titleBehaviorInPartial, \* options.titleBehaviorInPartial
    componentCache,    \* this.componentCache
    universe,          \* which templates the caller may compile
    preloads,          \* whether the caller calls preloadComponents
    pc,                \* "idle", "rewriting", "done", "rendered", "failed",
                       \* "hung"
    owned,             \* the list is owned by a parent / an array of clones
    source,            \* the list processTree was called on
    tree,              \* the list as it is now
    cursor,            \* processTree's cursor (1-based)
    scope,             \* the scope processTree was called with
    pass,              \* 1, or 2 for processTree run again on its output
    first,             \* the list after the first run
    last,              \* the latest dispatch: the list before it, etc.
    log,               \* what the run has evaluated, merged, loaded, expanded
    stacked,           \* the run of processStacks: the tree before it, etc.
    pending,           \* the files preloadComponents is reading
    resolved,          \* the resolutions of names that are no overrides,
                       \* made since the construction or the latest preload
    compiles,          \* the number of compile calls made
    turns              \* the turns the running processTree loop has taken

vars == <<passedComponents, fs, cacheComponents,
          passedAttributeMergeStrategies, strategies,
          titleBehaviorInPartial, componentCache, universe, preloads, pc, owned, source,
          tree, cursor, scope, pass, first, last, log, stacked, pending,
          resolved, compiles, turns>>

config == <<passedComponents, fs, cacheComponents,
            passedAttributeMergeStrategies, strategies,
            titleBehaviorInPartial, universe, preloads>>

NoDispatch ==
    [tree |-> <<>>, i |-> 0, ret |-> 0, st |-> "", msg |-> "",
     scope |-> evalContext, cache |-> NoFiles, evals |-> 0, loads |-> 0]
NoLog ==
    [evals |-> <<>>, merges |-> <<>>, reads |-> <<>>, loads |-> <<>>,
     expansions |-> <<>>]
NotStacked ==
    [before |-> <<>>, st |-> "", msg |-> "", stackInfo |-> NoStacks,
     pushed |-> <<>>, placed |-> <<>>, content |-> [n \in {} |-> <<>>]]

World ==
    [passedComponents |-> passedComponents, fs |-> fs,
     cacheComponents |-> cacheComponents, strategies |-> strategies,
     cache |-> componentCache, evals |-> log.evals, merges |-> log.merges,
     reads |-> log.reads, loads |-> log.loads,
     expansions |-> log.expansions]

Idle ==
    /\ pc = "idle" /\ owned = TRUE /\ source = <<>> /\ tree = <<>>
    /\ cursor = 1 /\ scope = evalContext /\ pass = 1 /\ first = <<>>
    /\ last = NoDispatch /\ log = NoLog /\ stacked = NotStacked

\* new HTmpCompiler(options)
Init ==
    /\ \E inst \in Instances :
          /\ passedComponents = convertComponents(inst.components)
          /\ fs = inst.fs
          /\ cacheComponents = inst.cacheComponents
          /\ passedAttributeMergeStrategies = inst.attributeMergeStrategies
          /\ strategies = getDefaultOptions(inst.attributeMergeStrategies)
          /\ titleBehaviorInPartial =
                (IF "titleBehaviorInPartial" \in DOMAIN inst
                 THEN inst.titleBehaviorInPartial ELSE "preserve")
          /\ universe = inst.universe
          /\ preloads = ("preloads" \in DOMAIN inst)
    /\ componentCache = NoFiles
    /\ pending = {}
    /\ turns = 0
    /\ resolved = <<>>
    /\ compiles = 0
    /\ Idle

\* the walk of loadComponents down to a file: the names of the directories
\* entered below componentsRoot (segments) and the name of the entry
entryOf(path) ==
    CASE path = "card.html" -> [segments |-> <<>>, name |-> "card.html"]
      [] path = "index.html" -> [segments |-> <<>>, name |-> "index.html"]
      [] path = "my.card.html" -> [segments |-> <<>>, name |-> "my.card.html"]
      [] path = "card/index.html" ->
            [segments |-> <<"card">>, name |-> "index.html"]
      [] path = "ui/card/index.html" ->
            [segments |-> <<"ui", "card">>, name |-> "index.html"]
      [] path = "ui/notes.txt" -> [segments |-> <<"ui">>, name |-> "notes.txt"]

\* entry.name.match(/^([\w\-]+)\.html$/): <<>> for null, else the match and
\* its group
nameMatch(name) ==
    CASE name = "card.html" -> <<"card.html", "card">>
      [] name = "index.html" -> <<"index.html", "index">>
      [] OTHER -> <<>>

\* segments.join(separator)
RECURSIVE join(_, _)
join(segments, separator) ==
    IF segments = <<>> THEN ""
    ELSE IF Len(segments) = 1 THEN segments[1]
    ELSE segments[1] \o separator \o join(Tail(segments), separator)

\* every matching file is named by the segments and its own name
preloadName_keepIndex(path) ==
    join(Append(entryOf(path).segments, nameMatch(entryOf(path).name)[2]), ".")

\* preloadComponents, componentName: dir !== startingDir when a directory
\* was entered
preloadName(path) ==
    IF /\ nameMatch(entryOf(path).name)[2] = "index"
       /\ entryOf(path).segments # <<>>
    THEN join(entryOf(path).segments, ".")
    ELSE join(Append(entryOf(path).segments,
                     nameMatch(entryOf(path).name)[2]), ".")

\* preloadComponents(), called between two compile calls: the directories
\* are listed and the read of every file whose name matches is started (one
\* call is in flight at a time)
Preload ==
    /\ preloads /\ pc = "idle" /\ pending = {}
    /\ pending' = {f \in DOMAIN fs : nameMatch(entryOf(f).name) # <<>>}
    /\ resolved' = <<>>
    /\ UNCHANGED <<config, componentCache, pc, owned, source, tree, cursor,
                   scope, pass, first, last, log, stacked, compiles>>
    /\ UNCHANGED turns

\* one read of preloadComponents finishes, at any moment of a compile call:
\* the content is cached under the name of the file. A read that fails
\* rejects the call; the reads still in flight go on and write. The call
\* completes with its last read when none has failed.
PreloadRead ==
    /\ \E f \in pending :
          /\ pending' = pending \ {f}
          /\ componentCache' =
                IF IsError(fs[f]) THEN componentCache
                ELSE CacheSet(componentCache, preloadName(f), fs[f])
    /\ resolved' = <<>>
    /\ UNCHANGED <<config, pc, owned, source, tree, cursor, scope, pass,
                   first, last, log, stacked, compiles>>
    /\ UNCHANGED turns

\* compile(html): parseHtml and the call processTree(tree, evalContext)
Compile ==
    /\ pc = "idle" /\ compiles < MaxCompiles
    /\ \E t \in TemplatesOf(universe) :
          /\ source' = t
          /\ tree' = t
    /\ pc' = "rewriting"
    /\ compiles' = compiles + 1
    /\ UNCHANGED pending
    /\ UNCHANGED <<config, componentCache, owned, cursor, scope, pass, first,
                   last, log, stacked, resolved>>
    /\ turns' = 0

\* processNode, "loop tags": the call processTree(innerTree, scope) on the
\* clones of a loop body for one item of the array
LoopBody ==
    /\ pc = "idle" /\ compiles < MaxCompiles
    /\ \E t \in TemplatesOf(universe) :
          /\ source' = t
          /\ tree' = t
    /\ owned' = FALSE
    /\ scope' = Bind(Bind(evalContext, "__array", JSArr("", <<JSNum("1")>>)),
                     "x", JSNum("1"))
    /\ pc' = "rewriting"
    /\ compiles' = compiles + 1
    /\ UNCHANGED pending
    /\ UNCHANGED <<config, componentCache, cursor, pass, first, last, log,
                   stacked, resolved>>
    /\ turns' = 0

\* one turn of "while (tree[cursor]) cursor += await processNode(...)"
Dispatch ==
    /\ pc = "rewriting" /\ cursor <= Len(tree)
    /\ \E r \in {processNode(tree, cursor, owned, scope, World)} :
          /\ last' = [tree |-> tree, i |-> cursor, ret |-> r.ret,
                      st |-> r.st, msg |-> r.msg, scope |-> scope,
                      cache |-> componentCache, evals |-> Len(log.evals),
                      loads |-> Len(log.loads)]
          /\ log' = [evals |-> r.w.evals, merges |-> r.w.merges,
                     reads |-> r.w.reads, loads |-> r.w.loads,
                     expansions |-> r.w.expansions]
          /\ componentCache' = r.w.cache
          /\ resolved' = resolved
                \o SelectSeq(SubSeq(r.w.loads, Len(log.loads) + 1,
                                    Len(r.w.loads)),
                             LAMBDA l : l.from # "passed")
          /\ IF r.st = "ok"
             THEN /\ tree' = r.tree
                  /\ cursor' = cursor + r.ret
                  /\ pc' = IF r.ret = 0 /\ r.tree = tree
                              /\ r.w.cache = componentCache
                           THEN "hung" ELSE "rewriting"
             ELSE /\ pc' = IF r.st = "hang" THEN "hung" ELSE "failed"
                  /\ UNCHANGED <<tree, cursor>>
    /\ UNCHANGED pending
    /\ UNCHANGED <<config, owned, source, scope, pass, first, stacked,
                   compiles>>
    /\ turns' = turns + 1

\* the loop of processTree ends: tree[cursor] is undefined
Complete ==
    /\ pc = "rewriting" /\ cursor > Len(tree)
    /\ pc' = "done"
    /\ UNCHANGED pending
    /\ UNCHANGED <<config, componentCache, owned, source, tree, cursor, scope,
                   pass, first, last, log, stacked, resolved, compiles>>
    /\ UNCHANGED turns

\* processTree called again on the list it has just finished, same scope
Again ==
    /\ pc = "done" /\ pass = 1
    /\ pass' = 2
    /\ first' = tree
    /\ cursor' = 1
    /\ last' = NoDispatch
    /\ pc' = "rewriting"
    /\ UNCHANGED pending
    /\ UNCHANGED <<config, componentCache, owned, source, tree, scope, log,
                   stacked, resolved, compiles>>
    /\ turns' = 0

\* compile: this.processStacks(tree), once processTree has returned
ProcessStacks ==
    /\ pc = "done" /\ owned /\ pass = 1
    /\ \E r \in {processStacks(tree, titleBehaviorInPartial)} :
          /\ stacked' = [before |-> tree, st |-> r.st, msg |-> r.msg,
                         stackInfo |-> r.stackInfo, pushed |-> r.pushed,
                         placed |-> r.placed,
                         content |-> r.content]
          /\ tree' = r.tree
          /\ pc' = IF r.st = "ok" THEN "rendered" ELSE "failed"
    /\ last' = NoDispatch
    /\ UNCHANGED pending
    /\ UNCHANGED <<config, componentCache, owned, source, cursor, scope, pass,
                   first, log, resolved, compiles>>
    /\ UNCHANGED turns

\* compile returns renderHtml(tree) or rejects, and the instance keeps its
\* cache; so ends a run of processTree on the clones of a loop body and a
\* second run of processTree
Return ==
    /\ \/ pc \in {"rendered", "failed"}
       \/ pc = "done" /\ (~owned \/ pass = 2)
    /\ pc' = "idle" /\ owned' = TRUE /\ source' = <<>> /\ tree' = <<>>
    /\ cursor' = 1 /\ scope' = evalContext /\ pass' = 1 /\ first' = <<>>
    /\ last' = NoDispatch /\ log' = NoLog /\ stacked' = NotStacked
    /\ UNCHANGED pending
    /\ UNCHANGED <<config, componentCache, resolved, compiles>>
    /\ turns' = 0

Next ==
    \/ Preload \/ PreloadRead \/ Compile \/ LoopBody \/ Dispatch \/ Complete \/ Again
    \/ ProcessStacks \/ Return

Spec == Init /\ [][Next]_vars

\* ------------------------------------------------------------------------
\* Properties
\* ------------------------------------------------------------------------
\* the dispatch the state has just made, if any
Dispatched == last.i # 0
DispatchedNode == last.tree[last.i]

\* the world a reference expansion is computed in
Before == [World EXCEPT !.cache = last.cache]

\* the list `nodes` fully processed as a list of its own, under scope s
Processed(nodes, s) == processTree(nodes, 1, TRUE, s, Before)

ConstructNames == {"if", "elseif", "else", "switch", "for", dynamicTag}
IsConstruct(n) ==
    /\ isTag(n)
    /\ \/ n.name \in ConstructNames
       \/ isComponentByPrefix(n)
       \/ isComponentByTag(n)

RECURSIVE Outstanding(_)
Outstanding(list) ==
    \E j \in 1..Len(list) :
        IsConstruct(list[j]) \/ Outstanding(list[j].children)

\* C1: when processTree, run by compile, completes without error, the tree
\* holds no if/elseif/else, switch, for or dynamic element and no component
\* reference at any depth.
C1_NoOutstandingConstruct ==
    (pc = "done" /\ owned) => ~Outstanding(tree)

\* C2: a second run of processTree on the tree the first run produced, with
\* the same scope, succeeds and leaves the tree as the first run left it.
C2_Idempotent ==
    (pass = 2 /\ owned /\ pc # "rewriting") => (pc = "done" /\ tree = first)

\* the chain that starts with the element at index i of list: i and the
\* following sibling elements as long as they are elseif or else elements
RECURSIVE Chain(_, _)
Chain(list, i) ==
    LET j == nextElementSibling(list, i)
    IN IF j # 0 /\ list[j].name \in {"elseif", "else"}
       THEN <<i>> \o Chain(list, j)
       ELSE <<i>>

Holds(el, s) ==
    \/ el.name = "else"
    \/ /\ HasAttr(el.attribs, <<"condition">>)
       /\ Truthy(runInNewContext(GetAttr(el.attribs, <<"condition">>), s))

\* the position in the chain of the branch that is taken, 0 if none is
Taken(list, chain, s) ==
    IF \E m \in 1..Len(chain) : Holds(list[chain[m]], s)
    THEN CHOOSE m \in 1..Len(chain) :
            /\ Holds(list[chain[m]], s)
            /\ \A h \in 1..(m - 1) : ~Holds(list[chain[h]], s)
    ELSE 0

\* the list with the branches of the chain from position m down replaced:
\* the taken one by content, every other one by nothing
RECURSIVE Replaced(_, _, _, _, _)
Replaced(list, chain, m, taken, content) ==
    IF m = 0 THEN list
    ELSE Replaced(Splice(list, chain[m],
                         IF m = taken THEN content ELSE <<>>),
                  chain, m - 1, taken, content)

\* the conditions a chain evaluates: those of its branches up to the taken
\* one, an else having none
RECURSIVE ConditionsOf(_, _, _)
ConditionsOf(list, chain, upTo) ==
    IF upTo = 0 THEN <<>>
    ELSE ConditionsOf(list, chain, upTo - 1)
         \o (IF list[chain[upTo]].name = "else" THEN <<>>
             ELSE <<GetAttr(list[chain[upTo]].attribs, <<"condition">>)>>)

C3_Chain == Chain(last.tree, last.i)
C3_Taken == Taken(last.tree, C3_Chain, last.scope)
C3_Content ==
    IF C3_Taken = 0 THEN <<>>
    ELSE Processed(last.tree[C3_Chain[C3_Taken]].children, last.scope).tree

\* C3: of a chain if, elseif*, else? the output holds the processed children
\* of the first branch whose condition is truthy, else those of the else
\* branch, else nothing; every element of the chain is removed, and no
\* condition after the first truthy one is evaluated.
C3_ConditionalExclusivity ==
    (/\ Dispatched
     /\ DispatchedNode.name = "if"
     /\ last.st # "error")
    => /\ pc # "hung"
       /\ tree = Replaced(last.tree, C3_Chain, Len(C3_Chain), C3_Taken,
                          C3_Content)
       /\ SubSeq(log.evals, last.evals + 1,
                 last.evals + Len(ConditionsOf(last.tree, C3_Chain,
                     IF C3_Taken = 0 THEN Len(C3_Chain) ELSE C3_Taken)))
          = ConditionsOf(last.tree, C3_Chain,
                IF C3_Taken = 0 THEN Len(C3_Chain) ELSE C3_Taken)

\* the copies of the body of the for element node for the items from k on,
\* each processed with the item variable bound to its item
RECURSIVE Copies(_, _, _, _)
Copies(node, items, k, s) ==
    IF k > Len(items) THEN <<>>
    ELSE Processed(node.children,
                   Bind(s, GetAttr(node.attribs, <<"item">>), items[k])).tree
         \o Copies(node, items, k + 1, s)

RECURSIVE AllProcessed(_, _, _, _)
AllProcessed(node, items, k, s) ==
    \A j \in k..Len(items) :
        Processed(node.children,
                  Bind(s, GetAttr(node.attribs, <<"item">>), items[j])).st
        = "ok"

C4_Sequence == runInNewContext(GetAttr(DispatchedNode.attribs, <<"in">>), last.scope)

\* C4: a for element whose in attribute evaluates to a sequence of n
\* elements is replaced, at its position, by n processed copies of its body
\* in iteration order, the i-th processed with the item variable bound to the
\* i-th element, whatever the body holds at its top level.
C4_LoopCardinalityAndOrder ==
    (/\ Dispatched
     /\ DispatchedNode.name = "for"
     /\ HasAttr(DispatchedNode.attribs, <<"item">>)
     /\ HasAttr(DispatchedNode.attribs, <<"in">>)
     /\ C4_Sequence.t = "arr"
     /\ AllProcessed(DispatchedNode, C4_Sequence.items, 1,
                     Bind(last.scope, "__array", C4_Sequence)))
    => /\ last.st = "ok"
       /\ tree = Splice(last.tree, last.i,
                    Copies(DispatchedNode, C4_Sequence.items, 1,
                           Bind(last.scope, "__array", C4_Sequence)))

C5_Value == runInNewContext(GetAttr(DispatchedNode.attribs, <<"value">>), last.scope)
C5_IsCase(n) == isTag(n) /\ n.name = "case"
C5_Matches(n) ==
    /\ C5_IsCase(n)
    /\ HasAttr(n.attribs, <<"case">>)
    /\ StrictEquals(runInNewContext(GetAttr(n.attribs, <<"case">>), last.scope),
                    C5_Value)
C5_IsDefault(n) ==
    /\ C5_IsCase(n)
    /\ HasAttr(n.attribs, <<"default">>)
    /\ ~HasAttr(n.attribs, <<"case">>)
C5_First(Test(_)) ==
    LET cases == DispatchedNode.children
    IN IF \E k \in 1..Len(cases) : Test(cases[k])
       THEN CHOOSE k \in 1..Len(cases) :
               Test(cases[k]) /\ \A j \in 1..(k - 1) : ~Test(cases[j])
       ELSE 0
C5_Winner ==
    IF C5_First(C5_Matches) # 0 THEN C5_First(C5_Matches)
    ELSE C5_First(C5_IsDefault)
C5_Content ==
    IF C5_Winner = 0 THEN <<>>
    ELSE Processed(DispatchedNode.children[C5_Winner].children, last.scope).tree

\* C5: a switch element is replaced by the processed children of the first
\* case child whose case attribute is strictly equal to the value; if none
\* matches, by those of the case child marked default that has no case
\* attribute; if there is neither, by nothing.
C5_SwitchSelection ==
    (/\ Dispatched
     /\ DispatchedNode.name = "switch"
     /\ HasAttr(DispatchedNode.attribs, <<"value">>)
     /\ last.st # "error")
    => /\ pc # "hung"
       /\ tree = Splice(last.tree, last.i, C5_Content)

\* what the precedence of the sources gives for the name l.name, the cache
\* being l.cache: the source, the content or the error, and the files read
C6_Direct(l) == readFile(fs, directFilePath(l.name))
C6_Index(l) == readFile(fs, indexFilePath(l.name))
C6_Resolution(l) ==
    IF l.name \in DOMAIN passedComponents
    THEN [st |-> "ok", from |-> "passed", msg |-> "",
          content |-> passedComponents[l.name], reads |-> <<>>]
    ELSE IF cacheComponents /\ l.name \in DOMAIN l.cache
    THEN [st |-> "ok", from |-> "cache", msg |-> "",
          content |-> l.cache[l.name], reads |-> <<>>]
    ELSE IF C6_Direct(l) \notin {"ENOENT", "EACCES"}
    THEN [st |-> "ok", from |-> "direct", msg |-> "",
          content |-> C6_Direct(l),
          reads |-> <<directFilePath(l.name)>>]
    ELSE IF C6_Direct(l) = "EACCES"
    THEN [st |-> "error", from |-> "", msg |-> "EACCES", content |-> "",
          reads |-> <<directFilePath(l.name)>>]
    ELSE IF C6_Index(l) \notin {"ENOENT", "EACCES"}
    THEN [st |-> "ok", from |-> "index", msg |-> "",
          content |-> C6_Index(l),
          reads |-> <<directFilePath(l.name), indexFilePath(l.name)>>]
    ELSE IF C6_Index(l) = "EACCES"
    THEN [st |-> "error", from |-> "", msg |-> "EACCES", content |-> "",
          reads |-> <<directFilePath(l.name), indexFilePath(l.name)>>]
    ELSE [st |-> "error", from |-> "",
          msg |-> "Component not found: " \o l.name, content |-> "",
          reads |-> <<directFilePath(l.name), indexFilePath(l.name)>>]

RECURSIVE C7_Bucket(_, _, _)
C7_Bucket(attribs, b, acc) ==
    IF attribs = <<>> THEN acc
    ELSE LET k == attribs[1].k
             slotted == Len(k) >= 3 /\ k[1] = attrAttribute
             mine == IF slotted THEN k[2] = b ELSE b = ""
             name == IF slotted THEN SubSeq(k, 3, Len(k)) ELSE k
         IN C7_Bucket(Tail(attribs), b,
               IF mine THEN SetAttr(acc, name, attribs[1].v) ELSE acc)

C7_Marked(el) == isTag(el) /\ HasAttr(el.attribs, <<attrAttribute>>)

RECURSIVE C7_SomeDefaultMarker(_)
C7_SomeDefaultMarker(list) ==
    \E k \in 1..Len(list) :
       \/ /\ C7_Marked(list[k])
          /\ GetAttr(list[k].attribs, <<attrAttribute>>) = ""
       \/ C7_SomeDefaultMarker(list[k].children)

\* the index of the top-level element the default bucket falls to when no
\* element carries the empty marker, 0 if there is none
C7_Fallback(body, attribs) ==
    LET plain(k) == isTag(body[k]) /\ body[k].name \notin {"script", "style"}
    IN IF /\ ~C7_SomeDefaultMarker(body)
          /\ C7_Bucket(attribs, "", <<>>) # <<>>
          /\ \E k \in 1..Len(body) : plain(k)
       THEN CHOOSE k \in 1..Len(body) :
               plain(k) /\ \A j \in 1..(k - 1) : ~plain(j)
       ELSE 0

C7_Merge(el, bucket) ==
    assignAttributesToElement(el, bucket, 1, <<>>, World).el

\* the component tree with every marker removed and every bucket merged onto
\* the elements it goes to
RECURSIVE C7_Routed(_, _, _)
C7_Routed(list, attribs, fallback) ==
    [k \in 1..Len(list) |->
        IF ~isTag(list[k]) THEN list[k]
        ELSE LET el == list[k]
                 own == IF C7_Marked(el)
                        THEN C7_Merge(
                                [el EXCEPT !.attribs =
                                    DeleteAttr(@, <<attrAttribute>>)],
                                C7_Bucket(attribs,
                                    GetAttr(el.attribs, <<attrAttribute>>),
                                    <<>>))
                        ELSE el
                 all == IF k = fallback
                        THEN C7_Merge(own, C7_Bucket(attribs, "", <<>>))
                        ELSE own
             IN [all EXCEPT !.children = C7_Routed(el.children, attribs, 0)]]

\* C7: in every expansion each caller attribute attr:<slot>:<name> is merged
\* onto exactly the elements whose marker is <slot>, every other caller
\* attribute onto exactly the elements with the empty marker or, when there
\* is none, onto the first top-level element that is no script or style; the
\* marker is removed from every element that carried it and no other element
\* changes.
C7_AttributeRouting ==
    \A j \in DOMAIN log.expansions :
        log.expansions[j].merged
        = C7_Routed(log.expansions[j].body, log.expansions[j].attribs,
                    C7_Fallback(log.expansions[j].body,
                                log.expansions[j].attribs))

\* C7, its case: an expansion whose caller has attributes for a named
\* bucket and for the default bucket, and whose component tree has elements
\* marked for both
C7_RoutedBoth ==
    \E j \in DOMAIN log.expansions :
       /\ log.expansions[j].content = Marked
       /\ C7_Bucket(log.expansions[j].attribs, "s", <<>>) # <<>>
       /\ C7_Bucket(log.expansions[j].attribs, "", <<>>) # <<>>
       /\ C7_SomeDefaultMarker(log.expansions[j].body)
       /\ \E q \in {<<1, 1>>} :
             /\ GetAttr(NodeAt(log.expansions[j].body, q).attribs,
                        <<attrAttribute>>) = "s"
             /\ NodeAt(log.expansions[j].merged, q).attribs
                = C7_Bucket(log.expansions[j].attribs, "s", <<>>)
       /\ pc = "done"

\* the component tree with every yield and slot-define element replaced by
\* what the caller gives for it, or else by its own children, themselves
\* with their placeholders replaced
RECURSIVE C8_Projected(_, _)
C8_Projected(list, parts) ==
    IF list = <<>> THEN <<>>
    ELSE LET el == list[1]
             name == GetAttr(el.attribs, <<"name">>)
         IN (IF isTag(el) /\ el.name = yieldTag
             THEN IF parts.hasYield THEN parts.yieldContent
                  ELSE C8_Projected(el.children, parts)
             ELSE IF isTag(el) /\ el.name = defineSlotTag
             THEN IF name \in DOMAIN parts.slotContent
                  THEN parts.slotContent[name]
                  ELSE C8_Projected(el.children, parts)
             ELSE <<[el EXCEPT !.children = C8_Projected(@, parts)]>>)
            \o C8_Projected(Tail(list), parts)

\* C8: in an expanded component every yield element is replaced by the
\* caller's non-fill children, or without such by its own children, and
\* every slot-define element by the children of the caller's fill elements
\* of its name, or without such by its own children; no yield or
\* slot-define element of the component remains.
C8_ContentProjection ==
    \A j \in DOMAIN log.expansions :
        log.expansions[j].tree
        = C8_Projected(log.expansions[j].merged, log.expansions[j].parts)

\* what the evaluate attributes give for the entries from i on
RECURSIVE C9_Attributes(_, _, _, _)
C9_Attributes(entries, i, attribs, s) ==
    IF i > Len(entries) THEN attribs
    ELSE LET k == entries[i].k
             value == runInNewContext(entries[i].v, s)
             target == Tail(k)
         IN IF Len(k) >= 2 /\ k[1] = evaluateAttributePrefix
            THEN C9_Attributes(entries, i + 1,
                    IF IsFalseOrNullish(value)
                    THEN DeleteAttr(DeleteAttr(attribs, k), target)
                    ELSE SetAttr(DeleteAttr(attribs, k), target,
                                 IF value = JSTrue THEN ""
                                 ELSE TemplateString(value)),
                    s)
            ELSE C9_Attributes(entries, i + 1, attribs, s)

\* what the matches of a text node give
RECURSIVE C9_Data(_, _)
C9_Data(data, s) ==
    IF data = <<>> THEN <<>>
    ELSE (IF data[1].k = "lit" THEN <<data[1]>>
          ELSE IF IsFalseOrNullish(runInNewContext(data[1].s, s)) THEN <<>>
          ELSE Pieces(TemplateString(runInNewContext(data[1].s, s))))
         \o C9_Data(Tail(data), s)

\* C9: an attribute eval:<target> is removed, and <target> is absent when
\* the result is false, null or undefined, present and empty when it is
\* true, and else holds the string form of the result; every match of a text
\* node is replaced by the empty string or by the string form of its result.
C9_EvaluationMapping ==
    (Dispatched /\ last.st = "ok")
    => /\ (isTag(DispatchedNode) /\ DispatchedNode.name = "p")
          => tree[last.i].attribs
             = C9_Attributes(DispatchedNode.attribs, 1,
                             DispatchedNode.attribs, last.scope)
       /\ isText(DispatchedNode)
          => tree[last.i].data = C9_Data(DispatchedNode.data, last.scope)

\* C10: no merge made during a component expansion is given the source of an
\* eval-prefixed attribute, nor writes an eval-prefixed attribute.
C10_EvaluationPrecedesMerging ==
    \A j \in DOMAIN log.merges :
        ~(/\ Len(log.merges[j].k) >= 2
          /\ log.merges[j].k[1] = evaluateAttributePrefix)

\* ------------------------------------------------------------------------
\* The stack processor
\* ------------------------------------------------------------------------
\* the paths of the push elements of list in document order: an element
\* comes before the elements below it, and those before its next sibling
RECURSIVE C11_DocumentOrder(_, _, _)
C11_DocumentOrder(list, prefix, k) ==
    IF k > Len(list) THEN <<>>
    ELSE (IF isTag(list[k]) /\ list[k].name = pushTag
          THEN <<Append(prefix, k)>> ELSE <<>>)
         \o C11_DocumentOrder(list[k].children, Append(prefix, k), 1)
         \o C11_DocumentOrder(list, prefix, k + 1)

\* the children of the push elements that target the stack `name`, push
\* elements in document order, the children of each in child order
RECURSIVE C11_Children(_, _, _, _)
C11_Children(original, pushes, k, name) ==
    IF k > Len(pushes) THEN <<>>
    ELSE (IF GetAttr(NodeAt(original, pushes[k]).attribs, <<"stack">>) = name
          THEN [c \in 1..Len(NodeAt(original, pushes[k]).children) |->
                   Append(pushes[k], c)]
          ELSE <<>>)
         \o C11_Children(original, pushes, k + 1, name)

C11_HasId(node) == isTag(node) /\ HasAttr(node.attribs, <<"id">>)

\* the children left once every element child is dropped whose id an
\* earlier child of the sequence carries
RECURSIVE C11_FirstOfEachId(_, _, _)
C11_FirstOfEachId(original, children, k) ==
    IF k > Len(children) THEN <<>>
    ELSE (IF /\ C11_HasId(NodeAt(original, children[k]))
             /\ \E j \in 1..(k - 1) :
                   /\ C11_HasId(NodeAt(original, children[j]))
                   /\ GetAttr(NodeAt(original, children[j]).attribs, <<"id">>)
                      = GetAttr(NodeAt(original, children[k]).attribs, <<"id">>)
          THEN <<>> ELSE <<children[k]>>)
         \o C11_FirstOfEachId(original, children, k + 1)

C11_Pushes == C11_DocumentOrder(stacked.before, <<>>, 1)

\* C11: when processStacks has run, the content accumulated for every stack
\* name is the sequence of the children of the push elements that target
\* the name, the push elements taken in document order and the children of
\* each in child order, without the element children whose id an earlier
\* child of that sequence carries.
C11_StackOrder ==
    stacked.st = "ok" =>
        \A k \in 1..Len(C11_Pushes) :
            LET name == GetAttr(NodeAt(stacked.before, C11_Pushes[k]).attribs,
                                <<"stack">>)
            IN /\ name \in DOMAIN stacked.stackInfo
               /\ stacked.stackInfo[name].content =
                     C11_FirstOfEachId(stacked.before,
                        C11_Children(stacked.before, C11_Pushes, 1, name), 1)

\* the stack elements of list replaced by the content recorded for their
\* name, at any depth
RECURSIVE C12_Replay(_, _)
C12_Replay(list, k) ==
    IF k > Len(list) THEN <<>>
    ELSE (IF isTag(list[k]) /\ list[k].name = stackTag
          THEN stacked.content[GetAttr(list[k].attribs, <<"name">>)]
          ELSE IF isTag(list[k])
          THEN <<[list[k] EXCEPT !.children = C12_Replay(@, 1)]>>
          ELSE <<list[k]>>)
         \o C12_Replay(list, k + 1)

\* the nodes accumulated for the stack `name`, in accumulation order
C12_Accumulated(name) ==
    IF name \in DOMAIN stacked.stackInfo
    THEN [k \in 1..Len(stacked.stackInfo[name].content) |->
             NodeAt(stacked.before, stacked.stackInfo[name].content[k])]
    ELSE <<>>

\* C12: when processStacks has filled the stacks, every stack element of the
\* tree it was given is replaced: the tree is the one without the push
\* elements in which each stack element, at its own position, has become a
\* copy of the content accumulated for its name (nothing if no push
\* targeted the name), the same copy for every stack element of that name,
\* and no stack element is left, wherever it stood in the tree.
C12_StackReplay ==
    stacked.st = "ok" =>
        /\ stacked.placed = C12_Replay(stacked.pushed, 1)
        /\ \A n \in DOMAIN stacked.content :
              Len(stacked.content[n]) = Len(C12_Accumulated(n))
        /\ findElements(stacked.before, <<>>, stackTag) # <<>>
              => findElements(stacked.placed, <<>>, stackTag) = <<>>

\* C13: when processStacks has completed without error, the tree holds no
\* push element and no stack element at any depth.
C13_NoPushNoStack ==
    (pc = "rendered" /\ stacked.st = "ok") =>
        /\ findElements(tree, <<>>, pushTag) = <<>>
        /\ findElements(tree, <<>>, stackTag) = <<>>

\* ------------------------------------------------------------------------
\* Scopes
\* ------------------------------------------------------------------------
\* the outcome of the loop "evaluate attributes" for the dispatched element
C14_Attributes ==
    evaluateAttributes(DispatchedNode.attribs, 1, DispatchedNode.attribs,
                       last.scope, Before)

\* the dispatched node is an `if` whose condition is falsy and that is
\* followed by an elseif with a condition
C14_IfThenElseif ==
    /\ Dispatched /\ owned
    /\ isTag(DispatchedNode) /\ DispatchedNode.name = "if"
    /\ HasAttr(DispatchedNode.attribs, <<"condition">>)
    /\ C14_Attributes.st = "ok"
    /\ ~Holds(DispatchedNode, C14_Attributes.scope)
    /\ Len(Chain(last.tree, last.i)) > 1
    /\ last.tree[Chain(last.tree, last.i)[2]].name = "elseif"
    /\ HasAttr(last.tree[Chain(last.tree, last.i)[2]].attribs, <<"condition">>)

\* C14: a variable bound while a node is processed is readable by the
\* expressions of the descendants of the node at any depth, and by no
\* expression of a following sibling: (1) the children of a dispatched
\* element are processed under the scope its evaluated attributes have left;
\* (2) a text that follows in the list and reads a name the scope of the
\* list does not bind fails to evaluate, whatever the nodes before it have
\* bound; (3) an elseif whose condition reads a name the scope of the list
\* does not bind fails to evaluate, whatever its `if` has bound.
C14_ScopeIsolation ==
    /\ (/\ Dispatched /\ isTag(DispatchedNode)
        /\ ~IsConstruct(DispatchedNode)
        /\ DispatchedNode.name \notin {"elseif", "else"}
        /\ C14_Attributes.st = "ok")
       => /\ last.st =
                Processed(DispatchedNode.children, C14_Attributes.scope).st
          /\ last.st = "ok" =>
                tree[last.i].children =
                  Processed(DispatchedNode.children, C14_Attributes.scope).tree
    /\ (/\ Dispatched /\ isText(DispatchedNode)
        /\ \E k \in 1..Len(DispatchedNode.data) :
              /\ DispatchedNode.data[k].k = "code"
              /\ \A j \in 1..(k - 1) : DispatchedNode.data[j].k = "lit"
              /\ runInNewContext(DispatchedNode.data[k].s, scope) = JSThrow)
       => last.st = "error"
    /\ (/\ C14_IfThenElseif
        /\ runInNewContext(
              GetAttr(last.tree[Chain(last.tree, last.i)[2]].attribs,
                      <<"condition">>), scope) = JSThrow)
       => last.st = "error"

\* ------------------------------------------------------------------------
\* Props
\* ------------------------------------------------------------------------
\* the dispatched node is a reference to a component passed to the
\* constructor
C15_Reference ==
    /\ Dispatched /\ isTag(DispatchedNode)
    /\ isComponentByPrefix(DispatchedNode)
    /\ PrefixedNames[DispatchedNode.name] \in DOMAIN passedComponents

\* the caller element and its scope when the server scripts start
C15_Caller ==
    evaluateAttributes(DispatchedNode.attribs, 1, DispatchedNode.attribs,
                       last.scope, Before)

C15_Content == passedComponents[PrefixedNames[DispatchedNode.name]]

\* the statements `var = props.name` the server scripts of the component
\* execute, in order
RECURSIVE C15_StatementsOf(_, _)
C15_StatementsOf(componentTree, k) ==
    IF k > Len(componentTree) THEN <<>>
    ELSE (IF /\ isServerScript(componentTree[k])
             /\ innerText(componentTree[k]) \in DOMAIN Scripts
          THEN Scripts[innerText(componentTree[k])] ELSE <<>>)
         \o C15_StatementsOf(componentTree, k + 1)

C15_Statements == C15_StatementsOf(parseHtml(C15_Content), 1)

\* the first read of the prop that statement k reads
C15_FirstRead(k) ==
    CHOOSE j \in 1..k :
        /\ C15_Statements[j].name = C15_Statements[k].name
        /\ C15_Statements[j].eval = C15_Statements[k].eval
        /\ \A h \in 1..(j - 1) :
              \/ C15_Statements[h].name # C15_Statements[k].name
              \/ C15_Statements[h].eval # C15_Statements[k].eval

\* what statement k reads: the caller attribute of the name as it is when
\* the prop is read for the first time (undefined if the caller has none
\* then), as a string, or evaluated under the scope of the caller
C15_Read(k) ==
    LET j == C15_FirstRead(k)
        name == <<C15_Statements[j].name>>
    IN IF \/ ~HasAttr(C15_Caller.attribs, name)
          \/ \E h \in 1..(j - 1) :
                C15_Statements[h].name = C15_Statements[j].name
       THEN JSUndefined
       ELSE IF C15_Statements[j].eval
       THEN runInNewContext(GetAttr(C15_Caller.attribs, name),
                            C15_Caller.scope)
       ELSE JSStr(GetAttr(C15_Caller.attribs, name))

\* the scope of the caller with the variables of the statements up to k
RECURSIVE C15_Bound(_)
C15_Bound(k) ==
    IF k = 0 THEN C15_Caller.scope
    ELSE Bind(C15_Bound(k - 1), C15_Statements[k].var, C15_Read(k))

\* the caller attributes that no statement reads
C15_PassedThrough ==
    SelectSeq(C15_Caller.attribs,
              LAMBDA a : \A k \in 1..Len(C15_Statements) :
                            a.k # <<C15_Statements[k].name>>)

\* the component without its server scripts, processed under the scope the
\* scripts have left, in which props is no longer bound
C15_Body ==
    Processed(RemoveServerScripts(parseHtml(C15_Content)),
              C15_Bound(Len(C15_Statements)))

C15_Expansion == log.expansions[Len(log.expansions)]

\* C15: when a reference to a component is expanded, every read props.name
\* or props.$name of its server scripts yields the caller attribute `name`
\* (evaluated under the scope of the caller for $name), the same value at
\* every later read of that prop; the attributes read are removed from the
\* caller and the others are passed through as they are; the component is
\* then processed under a scope that holds the variables of the scripts and
\* no longer binds props.
C15_PropConsumption ==
    (C15_Reference /\ C15_Caller.st = "ok") =>
        IF \E k \in 1..Len(C15_Statements) : C15_Read(k) = JSThrow
        THEN last.st = "error"
        ELSE /\ C15_Body.st # "ok" => last.st = C15_Body.st
             /\ last.st = "ok" =>
                   /\ C15_Expansion.attribs = C15_PassedThrough
                   /\ C15_Expansion.body = C15_Body.tree

\* a component that reads props.title twice was expanded for a caller that
\* has a title and a class attribute
C15_ConsumedOnce ==
    /\ C15_Reference /\ last.st = "ok"
    /\ C15_Content = Twice
    /\ DispatchedNode.attribs = <<A("title", "a"), A("class", "b")>>
    /\ C15_Expansion.attribs = <<A("class", "b")>>
    /\ C15_Expansion.body = <<P(<<T("a")>>)>>

\* ------------------------------------------------------------------------
\* Merge strategies
\* ------------------------------------------------------------------------
\* the first strategy the user has passed that Test holds of, 0 if none
C16_First(Test(_)) ==
    IF \E j \in 1..Len(passedAttributeMergeStrategies) :
          Test(passedAttributeMergeStrategies[j])
    THEN CHOOSE j \in 1..Len(passedAttributeMergeStrategies) :
            /\ Test(passedAttributeMergeStrategies[j])
            /\ \A h \in 1..(j - 1) : ~Test(passedAttributeMergeStrategies[h])
    ELSE 0

C16_ByName(k) == C16_First(LAMBDA s : s.by = "name" /\ s.key = k)
C16_ByPattern(k) ==
    C16_First(LAMBDA s : s.by = "pattern" /\ PatternTest(s.key, k))

\* the merge function that is to be used for the attribute k
C16_Strategy(k) ==
    IF C16_ByName(k) # 0
    THEN passedAttributeMergeStrategies[C16_ByName(k)].merge
    ELSE IF k = <<"class">> THEN "class"
    ELSE IF k = <<"style">> THEN "style"
    ELSE IF C16_ByPattern(k) # 0
    THEN passedAttributeMergeStrategies[C16_ByPattern(k)].merge
    ELSE "overwrite"

\* C16: every attribute merged onto a target element is merged by the first
\* strategy registered under exactly its name: the first one the user has
\* passed under the name, else the built-in class or style strategy for
\* these two names; otherwise by the first strategy passed whose pattern
\* matches the name; otherwise the incoming value overwrites.
C16_StrategyResolution ==
    \A j \in DOMAIN log.merges :
        log.merges[j].mergeResult =
            mergeFn(C16_Strategy(log.merges[j].k), log.merges[j].a,
                    log.merges[j].hasA, log.merges[j].v)

\* attributes were merged under a list of strategies in which a pattern
\* that matches data-a precedes the strategy named data-a, a pattern
\* matches class, and the user has replaced the style strategy
C16_NameBeforePattern ==
    /\ C16_ByPattern(<<"data-a">>) # 0
    /\ C16_ByPattern(<<"data-a">>) < C16_ByName(<<"data-a">>)
    /\ C16_ByPattern(<<"class">>) # 0
    /\ C16_ByName(<<"style">>) # 0
    /\ \A k \in {<<"data-a">>, <<"data-b">>, <<"class">>, <<"style">>, <<"id">>} :
          \E j \in DOMAIN log.merges :
             /\ log.merges[j].k = k
             /\ log.merges[j].hasA = (k \in {<<"class">>, <<"style">>})

\* ------------------------------------------------------------------------
\* Dynamic tags
\* ------------------------------------------------------------------------
\* the dispatched dynamic element once its attributes are evaluated
C17_Attributes ==
    evaluateAttributes(DispatchedNode.attribs, 1, DispatchedNode.attribs,
                       last.scope, Before)
C17_Element == [DispatchedNode EXCEPT !.attribs = C17_Attributes.attribs]
C17_Tag ==
    runInNewContext(GetAttr(C17_Element.attribs, <<"tag">>),
                    C17_Attributes.scope)
C17_Children == Processed(C17_Element.children, C17_Attributes.scope)

\* C17: a dynamic element without a tag attribute makes compile fail; when
\* the tag expression is null, undefined or false the element is replaced
\* by its processed children in order; when it is a non-empty string
\* without whitespace the element stays where it is with its children and
\* its other attributes, named by the string and without the tag
\* attribute; any other value makes compile fail.
C17_DynamicTag ==
    (/\ Dispatched /\ isTag(DispatchedNode)
     /\ DispatchedNode.name = dynamicTag
     /\ C17_Attributes.st = "ok")
    => IF ~HasAttr(C17_Element.attribs, <<"tag">>) THEN last.st = "error"
       ELSE IF C17_Tag = JSThrow THEN last.st = "error"
       ELSE IF C17_Children.st # "ok" THEN last.st = C17_Children.st
       ELSE IF IsFalseOrNullish(C17_Tag)
       THEN /\ last.st = "ok" /\ pc # "hung"
            /\ tree = Splice(last.tree, last.i, C17_Children.tree)
       ELSE IF C17_Tag.t = "str" /\ NonBlank(C17_Tag.s)
       THEN /\ last.st = "ok" /\ pc # "hung"
            /\ tree = ReplaceAt(last.tree, last.i,
                         [C17_Element EXCEPT
                             !.name = C17_Tag.s,
                             !.attribs = DeleteAttr(@, <<"tag">>),
                             !.children = C17_Children.tree])
       ELSE last.st = "error"

\* ------------------------------------------------------------------------
\* Dangling branches
\* ------------------------------------------------------------------------
C18_IsBranch(n) == isTag(n) /\ n.name \in {"elseif", "else"}

\* the index of the last of the branches that follow the element at index
\* i of list immediately, one after the other (i if none does)
RECURSIVE C18_LastAdjacent(_, _)
C18_LastAdjacent(list, i) ==
    IF i < Len(list) /\ C18_IsBranch(list[i + 1])
    THEN C18_LastAdjacent(list, i + 1) ELSE i

RECURSIVE C18_HasBranch(_)
C18_HasBranch(list) ==
    \E j \in 1..Len(list) :
        C18_IsBranch(list[j]) \/ C18_HasBranch(list[j].children)

\* the nodes of list after index i
C18_After(list, i) == SubSeq(list, i + 1, Len(list))

\* C18: a conditional chain consumes an elseif or else only when it follows
\* the preceding branch of the chain immediately: (1) the dispatch of an
\* `if` leaves every node as it is that comes after the branches that follow
\* it immediately; (2) an elseif or else that is dispatched makes compile
\* fail; (3) no elseif or else is in a tree that processTree has finished,
\* and (4) processTree never stops short of an elseif or else that another
\* node separates from the chain: none is rendered or dropped silently.
C18_ChainAdjacency ==
    /\ (/\ Dispatched /\ isTag(DispatchedNode) /\ DispatchedNode.name = "if"
        /\ last.st = "ok")
       => /\ Len(tree) >= Len(C18_After(last.tree,
                                         C18_LastAdjacent(last.tree, last.i)))
          /\ C18_After(tree, Len(tree)
                             - Len(C18_After(last.tree,
                                     C18_LastAdjacent(last.tree, last.i))))
             = C18_After(last.tree, C18_LastAdjacent(last.tree, last.i))
    /\ (Dispatched /\ C18_IsBranch(DispatchedNode)) => last.st = "error"
    /\ pc = "done" => ~C18_HasBranch(tree)
    /\ pc = "hung" =>
          ~\E j \in (cursor + 2)..Len(tree) :
              /\ C18_IsBranch(tree[j])
              /\ ~C18_IsBranch(tree[j - 1])

\* ------------------------------------------------------------------------
\* Mandatory attributes
\* ------------------------------------------------------------------------
\* the element lacks the attribute its construct must have
C19_Lacks(n) ==
    /\ isTag(n)
    /\ \/ n.name \in {"if", "elseif"} /\ ~HasAttr(n.attribs, <<"condition">>)
       \/ n.name = "for" /\ (~HasAttr(n.attribs, <<"item">>)
                              \/ ~HasAttr(n.attribs, <<"in">>))
       \/ n.name = "switch" /\ ~HasAttr(n.attribs, <<"value">>)
       \/ n.name = dynamicTag /\ ~HasAttr(n.attribs, <<"tag">>)
       \/ n.name = componentTag /\ ~HasAttr(n.attribs, <<"name">>)
       \/ n.name = pushTag /\ ~HasAttr(n.attribs, <<"stack">>)
       \/ n.name = stackTag /\ ~HasAttr(n.attribs, <<"name">>)

RECURSIVE C19_SomeLacks(_)
C19_SomeLacks(list) ==
    \E j \in 1..Len(list) :
        C19_Lacks(list[j]) \/ C19_SomeLacks(list[j].children)

\* a slot-define element without a name, at any depth
RECURSIVE C19_NamelessSlot(_)
C19_NamelessSlot(list) ==
    \E j \in 1..Len(list) :
        \/ /\ isTag(list[j]) /\ list[j].name = defineSlotTag
           /\ ~HasAttr(list[j].attribs, <<"name">>)
        \/ C19_NamelessSlot(list[j].children)

\* the dispatched element once its attributes are evaluated
C19_Attributes ==
    evaluateAttributes(DispatchedNode.attribs, 1, DispatchedNode.attribs,
                       last.scope, Before)
C19_Element == [DispatchedNode EXCEPT !.attribs = C19_Attributes.attribs]

\* the first branch of the chain of the dispatched `if` that lacks its
\* condition is reached: the branches before it are falsy (of the clones of
\* a loop body, which have no siblings, only the `if` itself is reached)
C19_ReachedBranchLacks ==
    /\ C19_Element.name = "if"
    /\ \E m \in 1..(IF owned THEN Len(Chain(last.tree, last.i)) ELSE 1) :
          /\ C19_Lacks(IF m = 1 THEN C19_Element
                       ELSE last.tree[Chain(last.tree, last.i)[m]])
          /\ \A h \in 1..(m - 1) :
                ~Holds(IF h = 1 THEN C19_Element
                       ELSE last.tree[Chain(last.tree, last.i)[h]],
                       C19_Attributes.scope)

\* the dispatched element is a reference to a passed component that has a
\* nameless slot-define element, or it has a fill child without slot
C19_ReferenceLacks ==
    /\ isComponentByPrefix(C19_Element)
    /\ PrefixedNames[C19_Element.name] \in DOMAIN passedComponents
    /\ \/ C19_NamelessSlot(
             parseHtml(passedComponents[PrefixedNames[C19_Element.name]]))
       \/ \E j \in 1..Len(C19_Element.children) :
             /\ isTag(C19_Element.children[j])
             /\ C19_Element.children[j].name = fillSlotTag
             /\ ~HasAttr(C19_Element.children[j].attribs, <<"slot">>)

\* C19: a construct that is processed without its mandatory attribute makes
\* compile fail: (1) the dispatch of an `if` whose chain reaches a branch
\* without condition, of a for without item or in, a switch without value,
\* a dynamic element without tag, a component tag without name, a
\* reference to a component with a nameless slot-define element or with a
\* fill child without slot, ends in an error; (2) processStacks ends in an
\* error when the tree has a push element without stack or a stack element
\* without name; (3) no such element is in the tree that compile renders.
C19_MissingAttributeIsFatal ==
    /\ (/\ Dispatched /\ isTag(DispatchedNode)
        /\ C19_Attributes.st = "ok"
        /\ \/ C19_ReachedBranchLacks
           \/ /\ C19_Element.name \in {"for", "switch", dynamicTag, componentTag}
              /\ C19_Lacks(C19_Element)
           \/ C19_ReferenceLacks)
       => last.st = "error"
    /\ (/\ stacked.st # ""
        /\ \/ \E k \in DOMAIN findElements(stacked.before, <<>>, pushTag) :
                C19_Lacks(NodeAt(stacked.before,
                     findElements(stacked.before, <<>>, pushTag)[k]))
           \/ \E k \in DOMAIN findElements(stacked.before, <<>>, stackTag) :
                C19_Lacks(NodeAt(stacked.before,
                     findElements(stacked.before, <<>>, stackTag)[k])))
       => stacked.st = "error"
    /\ pc = "rendered" => ~C19_SomeLacks(tree)

\* ------------------------------------------------------------------------
\* Plain HTML
\* ------------------------------------------------------------------------
\* no construct tag, no attribute with the evaluate prefix and no match of
\* the content pattern, at any depth
RECURSIVE C20_Plain(_)
C20_Plain(list) ==
    \A j \in 1..Len(list) :
        /\ isText(list[j]) =>
              \A k \in 1..Len(list[j].data) : list[j].data[k].k = "lit"
        /\ isTag(list[j]) =>
              /\ ~IsConstruct(list[j])
              /\ list[j].name \notin {pushTag, stackTag}
              /\ \A k \in 1..Len(list[j].attribs) :
                    list[j].attribs[k].k[1] # evaluateAttributePrefix
              /\ C20_Plain(list[j].children)

RECURSIVE C20_HasTitle(_)
C20_HasTitle(list) ==
    \E j \in 1..Len(list) :
        isTag(list[j])
        /\ (list[j].name = "title" \/ C20_HasTitle(list[j].children))

\* no title element is below the body of an html element and, when the
\* titles of partial documents are to be removed, none is in a document
\* without html element
C20_TitlesStay(list) ==
    LET htmlEls == findElements(list, <<>>, "html")
    IN IF htmlEls = <<>>
       THEN titleBehaviorInPartial = "remove" => ~C20_HasTitle(list)
       ELSE \A h \in 1..Len(htmlEls) :
               \A j \in 1..Len(NodeAt(list, htmlEls[h]).children) :
                  LET child == NodeAt(list, htmlEls[h]).children[j]
                  IN (isTag(child) /\ child.name = "body")
                        => ~C20_HasTitle(child.children)

\* C20 as stated: a template without construct tag, evaluated attribute and
\* content match is compiled without error, and the tree after the
\* rewriter and the stack processor is the parsed template.
C20_PlainRoundTrip ==
    (pc \in {"rendered", "failed"} /\ C20_Plain(source))
        => pc = "rendered" /\ tree = source

\* C20, amended: a template without construct tag, evaluated attribute and
\* content match, without a title element below the body of an html element
\* and, when titleBehaviorInPartial is "remove" and the template has no html
\* element, without any title element, is compiled without error, and the
\* tree after the rewriter and the stack processor is the parsed template.
C20_PlainRoundTripWithoutTitles ==
    (/\ pc \in {"rendered", "failed"}
     /\ C20_Plain(source) /\ C20_TitlesStay(source))
        => pc = "rendered" /\ tree = source

\* a template with a title element that is to stay was compiled, and the
\* title is where it was
C20_TitleKept ==
    /\ pc = "rendered" /\ C20_Plain(source) /\ C20_TitlesStay(source)
    /\ C20_HasTitle(source)
    /\ tree = source

\* ------------------------------------------------------------------------
\* Title relocation
\* ------------------------------------------------------------------------
\* the path p comes before the path q in document order
RECURSIVE C21_Precedes(_, _)
C21_Precedes(p, q) ==
    IF p = <<>> THEN q # <<>>
    ELSE IF q = <<>> THEN FALSE
    ELSE IF p[1] # q[1] THEN p[1] < q[1]
    ELSE C21_Precedes(Tail(p), Tail(q))

\* the paths of the title elements below the list, at any depth
C21_Titles(list) ==
    LET found == findElements(list, <<>>, "title")
    IN {found[k] : k \in 1..Len(found)}

\* the body children of an html element that hold a title
C21_Bodies(htmlEl) ==
    {k \in 1..Len(htmlEl.children) :
        /\ isTag(htmlEl.children[k]) /\ htmlEl.children[k].name = "body"
        /\ C21_Titles(htmlEl.children[k].children) # {}}

\* the most deeply nested title below the list, the last one in document
\* order among those of maximal depth
C21_Deepest(list) ==
    LET titles == C21_Titles(list)
        winner == CHOOSE p \in titles :
                     \A q \in titles \ {p} :
                        \/ Len(q) < Len(p)
                        \/ Len(q) = Len(p) /\ C21_Precedes(q, p)
    IN NodeAt(list, winner)

\* what the claim says of the html element `after`, which was `before` when
\* the titles were moved and had a body with a title
C21_Relocated(before, after) ==
    LET body == CHOOSE k \in C21_Bodies(before) :
                   \A j \in C21_Bodies(before) : k <= j
        head == firstChild(after.children, "head")
    IN /\ C21_Bodies(after) = {}
       /\ head # 0
       /\ firstChild(before.children, "head") = 0 => head = 1
       /\ \E p \in C21_Titles(after.children[head].children) :
             /\ C21_Titles(after.children[head].children) = {p}
             /\ NodeAt(after.children[head].children, p)
                = C21_Deepest(before.children[body].children)

C21_HtmlsBefore == findElements(stacked.placed, <<>>, "html")
C21_HtmlsAfter == findElements(tree, <<>>, "html")

\* C21: the stack processor moves the titles without failing; afterwards
\* every html element that had a body child with a title has no title left
\* in its body and has a head child (the first child when it is new) that
\* holds exactly one title, a copy of the deepest title of the body, the
\* last in document order among the deepest; an html element whose body had
\* no title is as it was.
C21_TitleRelocation ==
    (stacked.st = "ok" \/ stacked.msg = "TypeError")
    => /\ stacked.st = "ok"
       /\ Len(C21_HtmlsAfter) = Len(C21_HtmlsBefore)
       /\ \A k \in 1..Len(C21_HtmlsBefore) :
             LET before == NodeAt(stacked.placed, C21_HtmlsBefore[k])
                 after == NodeAt(tree, C21_HtmlsAfter[k])
             IN IF C21_Bodies(before) # {}
                THEN C21_Relocated(before, after)
                ELSE after = before

\* ------------------------------------------------------------------------
\* The component cache
\* ------------------------------------------------------------------------
\* a resolution that went to the filesystem
C22_ReadsFiles(l) == l.reads # <<>>

\* once a load of the name has succeeded, every later resolution of the name
\* takes the same text from the cache and reads no file
C22_RememberedForever ==
    \A j \in DOMAIN resolved :
        (resolved[j].st = "ok" /\ C22_ReadsFiles(resolved[j]))
        => \A h \in (j + 1)..Len(resolved) :
              resolved[h].name = resolved[j].name
              => /\ resolved[h].from = "cache"
                 /\ resolved[h].content = resolved[j].content
                 /\ ~C22_ReadsFiles(resolved[h])

\* a failed load writes nothing to the cache
C22_FailureNotCached ==
    \A j \in DOMAIN resolved :
        resolved[j].st = "error" => resolved[j].after = resolved[j].cache

\* with caching disabled the cache is neither consulted nor written
C22_Disabled ==
    \A j \in DOMAIN resolved :
        /\ resolved[j].from # "cache"
        /\ C22_ReadsFiles(resolved[j])
        /\ resolved[j].after = resolved[j].cache

\* the resolutions of one name that went to the filesystem
C22_FileLoads(name) ==
    {j \in DOMAIN resolved :
        resolved[j].name = name /\ C22_ReadsFiles(resolved[j])}

\* C22 as stated: with caching enabled the filesystem is read at most once
\* for a name that is no override, a successful load is remembered for every
\* later reference and a failed load writes nothing to the cache; with
\* caching disabled the cache is neither consulted nor written.
C22_CacheLifecycle ==
    IF cacheComponents
    THEN /\ \A j \in DOMAIN resolved :
               Cardinality(C22_FileLoads(resolved[j].name)) <= 1
         /\ C22_RememberedForever
         /\ C22_FailureNotCached
    ELSE C22_Disabled

\* C22, amended: with caching enabled at most one load from the filesystem
\* succeeds for a name that is no override, a successful load is remembered
\* for every later reference, and a failed load writes nothing to the cache,
\* so that the next reference to the name goes to the filesystem again; with
\* caching disabled the cache is neither consulted nor written.
C22_CacheLifecycleOfSuccessfulLoads ==
    IF cacheComponents
    THEN /\ \A j, h \in DOMAIN resolved :
               (/\ j < h /\ resolved[j].name = resolved[h].name
                /\ C22_ReadsFiles(resolved[j]) /\ C22_ReadsFiles(resolved[h]))
               => resolved[j].st = "error"
         /\ C22_RememberedForever
         /\ C22_FailureNotCached
         /\ \A j \in DOMAIN resolved :
               (resolved[j].st = "error" /\ j < Len(resolved)
                /\ resolved[j + 1].name = resolved[j].name)
               => C22_ReadsFiles(resolved[j + 1])
    ELSE C22_Disabled

\* a second compile call finds in the cache what the first one loaded from
\* a file
C22_LoadedOnceThenCached ==
    /\ cacheComponents /\ compiles = 2 /\ pc = "done"
    /\ \E j, h \in DOMAIN resolved :
          /\ j < h /\ resolved[j].name = resolved[h].name
          /\ resolved[j].st = "ok" /\ C22_ReadsFiles(resolved[j])
          /\ resolved[h].from = "cache"

\* ------------------------------------------------------------------------
\* Preloading
\* ------------------------------------------------------------------------
\* the name of an entry without the extension .html, "" for an entry that
\* is no .html file
C23_Base(name) ==
    CASE name = "card.html" -> "card"
      [] name = "index.html" -> "index"
      [] name = "my.card.html" -> "my.card"
      [] OTHER -> ""

\* an .html file whose name before the extension is made of letters,
\* digits, underscores and hyphens only
C23_PlainName(name) == name \in {"card.html", "index.html"}

\* the key of a file: its path segments joined with dots, without the
\* extension; an index file in a subdirectory has the key of the directory
C23_Key(path) ==
    IF C23_Base(entryOf(path).name) = "index" /\ entryOf(path).segments # <<>>
    THEN join(entryOf(path).segments, ".")
    ELSE join(Append(entryOf(path).segments, C23_Base(entryOf(path).name)),
              ".")

\* the step with which a call of preloadComponents completes: its last read
\* finishes and none has failed
C23_Completes ==
    /\ pending # {} /\ pending' = {}
    /\ \A f \in DOMAIN fs :
          C23_PlainName(entryOf(f).name) => ~IsError(fs[f])

\* the keys of the cache are the keys of the files, each with the content
\* of a file of that key
C23_Cached(files) ==
    /\ DOMAIN componentCache' = {C23_Key(f) : f \in files}
    /\ \A k \in DOMAIN componentCache' :
          \E f \in files : C23_Key(f) = k /\ componentCache'[k] = fs[f]

RECURSIVE C24_Untouched(_, _, _)
C24_Untouched(rest, siblings, chain) ==
    IF siblings = <<>> THEN rest = <<>>
    ELSE \/ /\ rest # <<>> /\ rest[1] = siblings[1]
            /\ C24_Untouched(Tail(rest), Tail(siblings), chain)
         \/ /\ chain /\ isTag(siblings[1])
            /\ siblings[1].name \in {"elseif", "else"}
            /\ C24_Untouched(rest, Tail(siblings), chain)

\* C24: after each dispatch the nodes before the dispatched one are as they
\* were, and the list from the cursor on holds exactly the siblings that
\* followed the dispatched node, unprocessed (but for the branches a chain
\* has consumed): no node is left behind the cursor without having been
\* dispatched, and none that was dispatched or produced by an expansion is
\* at or after the cursor.
C24_ExactlyOnce ==
    (Dispatched /\ last.st = "ok")
    => /\ cursor >= last.i
       /\ SubSeq(tree, 1, last.i - 1) = SubSeq(last.tree, 1, last.i - 1)
       /\ C24_Untouched(SubSeq(tree, cursor, Len(tree)),
                        SubSeq(last.tree, last.i + 1, Len(last.tree)),
                        DispatchedNode.name = "if")

\* C25: the integer a dispatch returns is non-negative and is the number of
\* nodes that stand in the place of the dispatched node in the list the
\* cursor walks: the list length changed by ret - 1, and the nodes before
\* position i and after position i + ret - 1 are the siblings the
\* dispatched node had.
C25_ReplacementCount ==
    (Dispatched /\ last.st = "ok")
    => /\ last.ret >= 0
       /\ Len(tree) = Len(last.tree) + last.ret - 1
       /\ SubSeq(tree, 1, last.i - 1) = SubSeq(last.tree, 1, last.i - 1)
       /\ SubSeq(tree, last.i + last.ret, Len(tree))
             = SubSeq(last.tree, last.i + 1, Len(last.tree))

\* ------------------------------------------------------------------------
\* Termination
\* ------------------------------------------------------------------------
\* The turns of a processTree loop are continuations of awaited promises
\* (index.ts 68-70): while the loop is running its next turn is always
\* taken, and so is its end. What the caller does next is up to the caller.\* Dispatch is the one action that counts a turn, so a step of Turn that
\* changes turns is a step of Dispatch, enabled whenever the loop condition
\* "tree[cursor]" holds.
Turn == pc = "rewriting" /\ cursor <= Len(tree) /\ turns' = turns + 1

LiveSpec == Spec /\ WF_turns(Turn) /\ WF_vars(Complete)

\* C26: every run of processTree ends: its cursor moves past the end of the
\* list, or a call below it throws.
C26_Terminates == (pc = "rewriting") ~> (pc \in {"done", "failed"})

\* the list holds a for element, at any depth
RECURSIVE C26_Loops(_)
C26_Loops(list) ==
    \E j \in 1..Len(list) :
       /\ isTag(list[j])
       /\ list[j].name = "for" \/ C26_Loops(list[j].children)

\* in the model a compile call hangs only on a template that holds a loop
C26_OnlyLoopsHang == (pc = "hung" /\ owned) => C26_Loops(source)

\* ------------------------------------------------------------------------
\* Caller content
\* ------------------------------------------------------------------------
\* the children of the reference, processed under the scope of the reference
C27_Content == Processed(DispatchedNode.children, C15_Caller.scope)

\* the reference is a node of the template as it was given: no dispatch
\* before this one has processed its children
C27_AsWritten ==
    \E j \in DOMAIN source :
       /\ isTag(source[j]) /\ source[j].name = DispatchedNode.name
       /\ source[j].children = DispatchedNode.children

\* C27: the children of a component reference are processed once, under the
\* scope of the reference and not under the scope the server scripts of the
\* component have written to, and what is distributed to the yield and slot
\* positions is the outcome of that one processing.
C27_CallerContentOnce ==
    (C15_Reference /\ last.st = "ok" /\ pass = 1)
    => /\ C27_AsWritten
       /\ C27_Content.st = "ok"
       /\ C15_Expansion.parts
          = organizeContent(C27_Content.tree, 1,
               [hasYield |-> FALSE, yieldContent |-> <<>>,
                slotContent |-> EmptyMap]) 

\* ------------------------------------------------------------------------
\* The cache under concurrent reads
\* ------------------------------------------------------------------------
\* what lazy resolution loads from the files for the name: the direct file,
\* the index file only when there is no direct file, or else an error
C28_Loads(name) ==
    LET direct == readFile(fs, directFilePath(name))
    IN IF isENOENT(direct) THEN readFile(fs, indexFilePath(name))
       ELSE direct

\* C28: whatever the order in which the reads of preloadComponents and the
\* lazy loads complete, the component cache holds for a name the text lazy
\* resolution loads for it; so every write for one key carries one value.
C28_RaceFreeCache ==
    \A name \in DOMAIN componentCache :
        componentCache[name] = C28_Loads(name)

\* ------------------------------------------------------------------------
\* Loop input validation
\* ------------------------------------------------------------------------
\* the whole string is an identifier: /^[a-zA-Z_$][a-zA-Z0-9_$]*$/.test(s)
C29_Identifier(s) == s \notin {"", "1", "-", "1x", "a b"}

\* the for element has what a loop needs
C29_Valid ==
    /\ HasAttr(DispatchedNode.attribs, <<"item">>)
    /\ HasAttr(DispatchedNode.attribs, <<"in">>)
    /\ C29_Identifier(GetAttr(DispatchedNode.attribs, <<"item">>))
    /\ C4_Sequence.t = "arr"

\* C29: a for element is expanded only if it has an item and an in
\* attribute, the whole item attribute is an identifier and the in
\* expression gives a sequence; otherwise the compile fails, the list is
\* left as it was and nothing of the loop body has been evaluated.
C29_LoopInputValidation ==
    (Dispatched /\ DispatchedNode.name = "for" /\ ~C29_Valid)
    => /\ last.st = "error"
       /\ tree = last.tree
       /\ Len(log.evals) <= last.evals + 1

\* ------------------------------------------------------------------------
\* Projected placeholders
\* ------------------------------------------------------------------------
C30_Placeholder(n) == isTag(n) /\ n.name \in {yieldTag, defineSlotTag}

\* the number of yield and slot-define elements in the list, at any depth
RECURSIVE C30_Count(_)
C30_Count(list) ==
    IF list = <<>> THEN 0
    ELSE (IF C30_Placeholder(list[1]) THEN 1 ELSE 0)
         + (IF isTag(list[1]) THEN C30_Count(list[1].children) ELSE 0)
         + C30_Count(Tail(list))

\* no placeholder of the component tree lies inside another one
RECURSIVE C30_Flat(_)
C30_Flat(list) ==
    \A j \in DOMAIN list :
       isTag(list[j]) =>
          IF C30_Placeholder(list[j])
          THEN C30_Count(list[j].children) = 0
          ELSE C30_Flat(list[j].children)

\* the number of placeholders that enter the component tree with the
\* content the caller passes to its yield and slot-define elements
RECURSIVE C30_Passed(_, _)
C30_Passed(list, parts) ==
    IF list = <<>> THEN 0
    ELSE LET el == list[1]
             name == GetAttr(el.attribs, <<"name">>)
         IN (IF isTag(el) /\ el.name = yieldTag
             THEN IF parts.hasYield THEN C30_Count(parts.yieldContent)
                  ELSE 0
             ELSE IF isTag(el) /\ el.name = defineSlotTag
             THEN IF name \in DOMAIN parts.slotContent
                  THEN C30_Count(parts.slotContent[name]) ELSE 0
             ELSE IF isTag(el) THEN C30_Passed(el.children, parts)
             ELSE 0)
            + C30_Passed(Tail(list), parts)

\* C30: the yield and slot-define elements that enter the tree of a
\* component with the content its caller passes are not substituted by the
\* yield and slot step of that component: all of them are in the tree the
\* expansion inserts, where the step of the enclosing component finds them.
C30_ProjectedPlaceholdersKept ==
    \A j \in DOMAIN log.expansions :
        C30_Flat(log.expansions[j].merged)
        => C30_Count(log.expansions[j].tree)
           = C30_Passed(log.expansions[j].merged, log.expansions[j].parts)

====
